---------------------------- MODULE Spec2Model ----------------------------
(***************************************************************************)
(* A model of package req (nordborn/go-req): the retrying request loop of  *)
(* Req.Send with its per-attempt middleware and request (re)building, the  *)
(* retry predicates, the ordered container Vals and the response wrapper.  *)
(*                                                                         *)
(* The repository holds three generations of Req.Send.  The variable gen   *)
(* names the one a behaviour runs:                                         *)
(*   "v1"  src/req.go            (a new transport and client per build)    *)
(*   "v2"  src/unnamed/part_003  (a transport owned by the Req)            *)
(*   "v3"  src/unnamed/part_002  (a client held by the Req, by default the *)
(*                                shared http.DefaultClient)               *)
(*                                                                         *)
(* Text (Go strings and byte slices) is a finite sequence of letters; a    *)
(* letter is written as a TLA+ string and stands for a fragment of text.   *)
(* Concatenation is \o and strings.Contains is the substring test Contains.*)
(***************************************************************************)
EXTENDS Integers, Sequences, FiniteSets, TLC

(***************************************************************************)
(* Bounds of the model.                                                    *)
(***************************************************************************)
\* Largest attempt limit (Req.Attempts / Req.RetryTimes) a behaviour uses.
MaxAttempts == 3
\* Number of Send calls made on the one Req instance.
MaxSends == 2
\* Number of field assignments (With... builders) made by the caller.
MaxEdits == 2
\* Largest number of entries of a Vals literal.
MaxLen == 2
\* Largest spare capacity (cap - len) of a Vals.
MaxSpare == 1
\* Calls of Text and JSON on one Resp.
MaxCalls == 3

(***************************************************************************)
(* Text helpers.                                                           *)
(***************************************************************************)
\* strings.HasPrefix(s[i:], sub)
MatchAt(s, sub, i) ==
    /\ i + Len(sub) - 1 <= Len(s)
    /\ \A j \in 1..Len(sub) : s[i + j - 1] = sub[j]

\* strings.Contains / bytes.Contains: sub occurs in s as a contiguous run.
Contains(s, sub) == \E i \in 1..(Len(s) + 1) : MatchAt(s, sub, i)

\* fmt.Sprint of an int, as one letter.
Itoa(n) == <<ToString(n)>>

(***************************************************************************)
(* Vals: an ordered sequence of (Name, Value) pairs.  A Vals field of Req  *)
(* is either nil or a (possibly empty) sequence.                           *)
(***************************************************************************)
NilVals == [nil |-> TRUE, v |-> <<>>]
MkVals(s) == [nil |-> FALSE, v |-> s]
Val(n, v) == [Name |-> n, Value |-> v]

\* url.QueryEscape of one letter: unreserved letters stay, a space becomes
\* "+", every other letter becomes its %XX form.
EscapeLetter(c) ==
    CASE c = " " -> <<"+">>
      [] c = "&" -> <<"%26">>
      [] c = "=" -> <<"%3D">>
      [] c = "?" -> <<"%3F">>
      [] c = "{" -> <<"%7B">>
      [] c = "}" -> <<"%7D">>
      [] c = "[" -> <<"%5B">>
      [] c = "]" -> <<"%5D">>
      [] c = "\"" -> <<"%22">>
      [] c = ":" -> <<"%3A">>
      [] c = "," -> <<"%2C">>
      [] c = "\\" -> <<"%5C">>
      [] OTHER   -> <<c>>

RECURSIVE QueryEscape(_)
QueryEscape(s) ==
    IF s = <<>> THEN <<>> ELSE EscapeLetter(Head(s)) \o QueryEscape(Tail(s))

\* A loop that writes "&" before every entry, the first included.
RECURSIVE URLEncodeFromLeadingAmp(_, _, _)
URLEncodeFromLeadingAmp(vals, i, urlEncoded) ==
    IF i > Len(vals) THEN urlEncoded
    ELSE URLEncodeFromLeadingAmp(vals, i + 1,
             urlEncoded \o <<"&">> \o QueryEscape(vals[i].Name) \o <<"=">>
                        \o QueryEscape(vals[i].Value))

\* Vals.URLEncode: the loop over the entries, "&" before all but the first.
RECURSIVE URLEncodeFrom(_, _, _)
URLEncodeFrom(vals, i, urlEncoded) ==
    IF i > Len(vals) THEN urlEncoded
    ELSE LET enc == QueryEscape(vals[i].Name) \o <<"=">> \o QueryEscape(vals[i].Value)
         IN  URLEncodeFrom(vals, i + 1,
                 IF i = 1 THEN enc ELSE urlEncoded \o <<"&">> \o enc)

URLEncode(vals) == URLEncodeFrom(vals, 1, <<>>)

\* A signature test that looks at the first letter only.
HasSeqSigPrefixOnly(value) ==
    Len(value) > 0 /\ (value[1] = "{" \/ value[1] = "[")

\* hasSeqSig detects [] and {}: the first and the last letter of the value.
HasSeqSig(value) ==
    /\ Len(value) > 0
    /\ \/ value[1] = "{" /\ value[Len(value)] = "}"
       \/ value[1] = "[" /\ value[Len(value)] = "]"

\* A loop that writes every value as it is, without the quotes.
RECURSIVE JSONFromUnquoted(_, _, _)
JSONFromUnquoted(vals, i, json) ==
    IF i > Len(vals) THEN json \o <<"}">>
    ELSE JSONFromUnquoted(vals, i + 1,
             json \o (IF i > 1 THEN <<",">> ELSE <<>>)
                  \o <<"\"">> \o vals[i].Name \o <<"\"", ":">> \o vals[i].Value)

\* Vals.JSON: the loop over the entries, "," before all but the first, the
\* value of an entry embedded as it is when it has the signature of a JSON
\* object or array and between double quotes otherwise.
RECURSIVE JSONFrom(_, _, _)
JSONFrom(vals, i, json) ==
    IF i > Len(vals) THEN json \o <<"}">>
    ELSE LET sep == IF i > 1 THEN <<",">> ELSE <<>>
             key == <<"\"">> \o vals[i].Name \o <<"\"", ":">>
         IN  JSONFrom(vals, i + 1,
                 json \o sep \o key \o
                     (IF HasSeqSig(vals[i].Value) THEN vals[i].Value
                      ELSE <<"\"">> \o vals[i].Value \o <<"\"">>))

JSON(vals) == JSONFrom(vals, 1, <<"{">>)

(***************************************************************************)
(* utils: URL building and the two retry predicates.                       *)
(***************************************************************************)
\* The references url.Parse rejects.
BadURL == <<"%zz">>
UrlParses(s) == ~Contains(s, BadURL)

\* Position of the first "?" of a reference (Len + 1 when it has none).
RECURSIVE QueryMark(_, _)
QueryMark(s, i) ==
    IF i > Len(s) THEN i ELSE IF s[i] = "?" THEN i ELSE QueryMark(s, i + 1)

\* url.Parse(path).Path and .RawQuery
PathOf(s) == SubSeq(s, 1, QueryMark(s, 1) - 1)
RawQueryOf(s) == SubSeq(s, QueryMark(s, 1) + 1, Len(s))

\* url.Parse(path).ForceQuery: the reference ends in its only "?".
ForceQueryOf(s) == Len(s) > 0 /\ QueryMark(s, 1) = Len(s)

\* URL.String() of path resolved against base (a base with an empty or "/"
\* path; a relative path, or one that starts with "/"), with the given
\* RawQuery and ForceQuery.
URLString(base, path, rawQuery, forceQuery) ==
    LET root == IF base # <<>> /\ base[Len(base)] = "/"
                THEN SubSeq(base, 1, Len(base) - 1) ELSE base
    IN  root \o (IF path = <<>> THEN (IF root # base THEN <<"/">> ELSE <<>>)
                 ELSE IF path[1] = "/" THEN path ELSE <<"/">> \o path)
             \o (IF rawQuery = <<>> /\ ~forceQuery THEN <<>> ELSE <<"?">> \o rawQuery)

\* A buildFullURL that redefines the query only from a Vals with entries.
BuildFullURLWhenEntries(base, path, getParams) ==
    IF ~UrlParses(base) THEN [ok |-> FALSE, url |-> <<>>, err |-> <<"parse ">> \o base]
    ELSE IF ~UrlParses(path) THEN [ok |-> FALSE, url |-> <<>>, err |-> <<"parse ">> \o path]
    ELSE [ok  |-> TRUE,
          url |-> URLString(base, PathOf(path),
                     IF getParams.v = <<>> THEN RawQueryOf(path) ELSE URLEncode(getParams.v),
                     ForceQueryOf(path)),
          err |-> <<>>]

\* buildFullURL: parse base and path, resolve path against base, and
\* redefine the query from getParams when getParams is not nil.
BuildFullURL(base, path, getParams) ==
    IF ~UrlParses(base) THEN [ok |-> FALSE, url |-> <<>>, err |-> <<"parse ">> \o base]
    ELSE IF ~UrlParses(path) THEN [ok |-> FALSE, url |-> <<>>, err |-> <<"parse ">> \o path]
    ELSE [ok  |-> TRUE,
          url |-> URLString(base, PathOf(path),
                     IF getParams.nil THEN RawQueryOf(path) ELSE URLEncode(getParams.v),
                     ForceQueryOf(path)),
          err |-> <<>>]

\* A range test that leaves out the upper end of a pair.
RECURSIVE ShouldRetryOnStatusCodeExclusive(_, _, _)
ShouldRetryOnStatusCodeExclusive(statusCode, retryOnCodes, i) ==
    IF i > Len(retryOnCodes) THEN FALSE
    ELSE IF statusCode >= retryOnCodes[i][1] /\ statusCode < retryOnCodes[i][2] THEN TRUE
    ELSE ShouldRetryOnStatusCodeExclusive(statusCode, retryOnCodes, i + 1)

\* shouldRetryOnStatusCode: the pairs in list order, true at the first match.
RECURSIVE ShouldRetryOnStatusCodeFrom(_, _, _)
ShouldRetryOnStatusCodeFrom(statusCode, retryOnCodes, i) ==
    IF i > Len(retryOnCodes) THEN FALSE
    ELSE IF statusCode >= retryOnCodes[i][1] /\ statusCode <= retryOnCodes[i][2] THEN TRUE
    ELSE ShouldRetryOnStatusCodeFrom(statusCode, retryOnCodes, i + 1)

ShouldRetryOnStatusCode(statusCode, retryOnCodes) ==
    ShouldRetryOnStatusCodeFrom(statusCode, retryOnCodes, 1)

\* A marker loop that returns after testing its first marker.
ShouldRetryOnTextMarkerFirstOnly(content, markers, i) ==
    i <= Len(markers) /\ Contains(content, markers[i])

\* A marker search that passes over empty markers.
RECURSIVE ShouldRetryOnTextMarkerSkipEmpty(_, _, _)
ShouldRetryOnTextMarkerSkipEmpty(content, markers, i) ==
    IF i > Len(markers) THEN FALSE
    ELSE IF markers[i] # <<>> /\ Contains(content, markers[i]) THEN TRUE
    ELSE ShouldRetryOnTextMarkerSkipEmpty(content, markers, i + 1)

\* shouldRetryOnTextMarker: the markers in list order, true at the first found.
RECURSIVE ShouldRetryOnTextMarkerFrom(_, _, _)
ShouldRetryOnTextMarkerFrom(content, markers, i) ==
    IF i > Len(markers) THEN FALSE
    ELSE IF Contains(content, markers[i]) THEN TRUE
    ELSE ShouldRetryOnTextMarkerFrom(content, markers, i + 1)

ShouldRetryOnTextMarker(content, markers) ==
    ShouldRetryOnTextMarkerFrom(content, markers, 1)

\* setHeaders: Header.Set for each entry in order, a later entry of the same
\* name replacing the earlier one.  The header set as a set of pairs.
RECURSIVE SetHeadersFrom(_, _, _)
SetHeadersFrom(hdr, headers, i) ==
    IF i > Len(headers) THEN hdr
    ELSE SetHeadersFrom(
            {p \in hdr : p[1] # headers[i].Name} \cup {<<headers[i].Name, headers[i].Value>>},
            headers, i + 1)

SetHeaders(headers) == SetHeadersFrom({}, headers, 1)

(***************************************************************************)
(* Values the caller, the middleware and the transport draw from.          *)
(***************************************************************************)
Gens == {"v1", "v2", "v3"}
Methods == {"GET", "POST", "PUT", "DELETE", "PATCH", "OPTIONS"}
BaseURL == <<"http://h">>
GoodPath == <<"get">>
Paths == {GoodPath, BadURL}
Proxy1 == <<"http://p1">>
ProxyURLs == {<<>>, Proxy1, BadURL}
HeaderAppJSON == Val(<<"Content-Type">>, <<"application/json">>)
HeaderChoices == {MkVals(<<HeaderAppJSON>>)}
ParamChoices == {MkVals(<<Val(<<"c">>, <<"d">>)>>)}
FormChoices == {MkVals(<<Val(<<"n1">>, <<"v", " ", "1">>)>>)}
BodyChoices == {<<"{}">>}
CookieChoices == {<<"c1=v1">>}
DefaultMarkers == <<<<"error">>, <<"Error">>>>
MarkerChoices == {<<>>, <<<<>>>>}
DefaultCodes == <<<<400, 600>>>>
CodeChoices == {<<>>, <<<<400, 500>>, <<506, 600>>>>}
Timeouts == {10, 30}
DelayChoices == {0}
\* What the transport can answer.
Statuses == {200, 505}
\* (a server may echo the url of the request in its answer, as httpbin does)
EchoBody == <<"url: ">> \o BaseURL
Bodies == {EchoBody, <<"an ", "error">>, <<>>}
Partials == {<<"an ">>}

\* The effects a middleware callback (a closure over the Req) can have.
MwKinds == {"StampHeaders", "ToggleProxy", "MoreAttempts", "TogglePath"}
\* The middleware lists the caller registers: one callback, or StampHeaders
\* followed by another one.
MwLists ==
    {<<>>} \cup {<<k>> : k \in MwKinds}
           \cup {<<"StampHeaders", k>> : k \in MwKinds \ {"StampHeaders"}}

(***************************************************************************)
(* Records for the nil-able values of the program.                         *)
(***************************************************************************)
\* *http.Request as built by http.NewRequest, setCookies and setHeaders.
\* Body is the text the body reader was made of, BodyRead tells that the
\* reader has been read to its end.
NoReq == [nil |-> TRUE, Method |-> "", URL |-> <<>>, Body |-> <<>>,
          BodyRead |-> FALSE, Header |-> {}, Cookies |-> <<>>]
\* *http.Response
NoResp == [nil |-> TRUE, StatusCode |-> 0, att |-> 0]
\* error
NoErr == [nil |-> TRUE, msg |-> <<>>]
Err(m) == [nil |-> FALSE, msg |-> m]
\* errow.Wrap(err, ...): the same error with context added in front.
Wrap(e, ctx) == Err(ctx \o e.msg)
\* []byte
NilBytes == [nil |-> TRUE, b |-> <<>>]
Bytes(b) == [nil |-> FALSE, b |-> b]
\* *Resp
NoEnvelope == [nil |-> TRUE, Content |-> NilBytes, RespRaw |-> NoResp]

VARIABLES
    gen,     \* the generation of Send this behaviour runs
    r,       \* the fields of the Req instance
    tr,      \* the client and transport the Req dispatches through
    s,       \* the locals of the running Send and its position pc
    ret,     \* what the last finished Send returned
    h,       \* history of the running Send (observation only)
    vm,      \* the Vals values of the behaviours of SpecVals, their memory
    call,    \* the last call of a function of utils (behaviours of SpecUtils)
    rsp,     \* the Resp of the behaviours of SpecResp and its caller
    sh       \* two Reqs and the clients they dispatch through (SpecShared)

vars == <<gen, r, tr, s, ret, h, vm, call, rsp, sh>>

(***************************************************************************)
(* Vals values in memory.  A Vals is a Go slice: a window (len, cap) on a  *)
(* backing array; heap[k] is the backing array k, a sequence of cap cells. *)
(* The nil Vals is the slice without an array.                             *)
(***************************************************************************)
NoSlice == [arr |-> 0, len |-> 0, cap |-> 0]
\* An array cell no slice has written (a nil *val).
NilVal == Val(<<"<nil>">>, <<"<nil>">>)
Cells(n) == [j \in 1..n |-> NilVal]

\* The entries of a slice.
Content(heap, slice) ==
    IF slice.arr = 0 THEN <<>> ELSE SubSeq(heap[slice.arr], 1, slice.len)

\* The Reqs side of a behaviour that sends one Req only.
NoShared == [pc |-> "none"]

\* The utils side of a behaviour that calls none of its functions directly.
NoCall == [fn |-> "none"]
\* The Resp side of a behaviour that holds no Resp of its own.
NoRespValue == [pc |-> "none"]

\* The Vals side of a behaviour of Spec, which holds no Vals in memory.
NoVals ==
    [pc |-> "none", heap |-> <<>>, a |-> NoSlice, x |-> NoSlice, y |-> NoSlice,
     vals |-> <<>>, more |-> <<>>, last |-> <<>>, kvs |-> <<>>, out |-> <<>>,
     calls |-> 0,      \* calls of URLEncode, JSON and String so far
     key |-> <<"", 0>>,    \* the last of these calls: <<method, entry>>
     repeated |-> FALSE,   \* a call was made twice in a row
     same |-> TRUE]        \* every such second call returned what the first did

(***************************************************************************)
(* New: the Req with the default arguments of its generation.              *)
(***************************************************************************)
DefaultAttempts(g) == IF g = "v3" THEN 1 ELSE 3
DefaultTimeout(g) == IF g = "v3" THEN 30 ELSE 10

New(g, url) ==
    [Method |-> "GET", URL |-> url, Path |-> <<>>, Params |-> NilVals,
     Headers |-> NilVals, ProxyURL |-> <<>>, Form |-> NilVals, Body |-> <<>>,
     Middleware |-> <<>>, RetryOnTextMarkers |-> DefaultMarkers,
     RetryOnStatusCodes |-> DefaultCodes, Attempts |-> DefaultAttempts(g),
     RetryDelayMillis |-> 1, Timeout |-> DefaultTimeout(g),
     Cookies |-> <<>>, reqRaw |-> NoReq]

\* The client of the Req: nil until the first build in v1 and v2, the shared
\* http.DefaultClient (whose Transport is nil) in v3.
NewClient(g) ==
    [built |-> (g = "v3"), kind |-> IF g = "v3" THEN "default" ELSE "own",
     Proxy |-> <<>>, Timeout |-> 0]

\* The zero values of Send's locals.
SendLocals ==
    [pc |-> "loop", attempt |-> 1, shouldRetry |-> FALSE, respRaw |-> NoResp,
     content |-> NilBytes, err |-> NoErr, success |-> FALSE, reason |-> <<>>,
     fullURL |-> <<>>, funcs |-> <<>>, i |-> 1]

Idle == [SendLocals EXCEPT !.pc = "idle"]

NoRet == [set |-> FALSE, resp |-> NoEnvelope, err |-> NoErr]
Ret(resp, err) == [set |-> TRUE, resp |-> resp, err |-> err]

NoSent == [req |-> NoReq, Proxy |-> <<>>, Timeout |-> 0]
NoOutcome == [kind |-> "none", StatusCode |-> 0, body |-> <<>>]

\* The history of one Send; sends and edits count over the whole behaviour.
NewHistory(sends, edits, req) ==
    [sends |-> sends, edits |-> edits,
     atCall |-> req,          \* the Req fields when Send was called
     limitChanged |-> FALSE,  \* a callback changed the attempt limit
     attempts |-> 0,          \* loop iterations entered
     mwCalls |-> 0,           \* callback invocations
     mwSeq |-> <<>>,          \* the callbacks invoked in the current attempt
     builds |-> 0,            \* requests built
     builtAt |-> 0,           \* the attempt of the last build
     dispatches |-> 0,        \* calls of Client.Do
     delays |-> 0,            \* calls of delay
     out |-> NoOutcome,       \* what the transport answered last
     sent |-> NoSent,         \* the request of the last dispatch
     fields |-> req,          \* the Req fields at the last dispatch
     successAt |-> 0,         \* the attempt classified as success
     urlFailedAt |-> 0,       \* the attempt whose build failed in buildFullURL
     retried |-> 0,           \* attempts marked for retry
     waits |-> 0,             \* delays that waited
     open |-> 0,              \* response bodies not closed
     varied |-> FALSE]        \* an attempt recorded another reason than the one before

Init ==
    /\ gen \in Gens
    /\ r = New(gen, BaseURL)
    /\ tr = NewClient(gen)
    /\ s = Idle
    /\ ret = NoRet
    /\ h = NewHistory(0, 0, r)
    /\ sh = NoShared
    /\ vm = NoVals
    /\ call = NoCall
    /\ rsp = NoRespValue

(***************************************************************************)
(* The caller assigns fields of the Req between Sends (the With...         *)
(* builders of v3; the same public fields are assigned directly in v1, v2).*)
(***************************************************************************)
Edit(field, value) ==
    /\ s.pc = "idle"
    /\ h.edits < MaxEdits
    /\ r[field] # value
    /\ r' = [r EXCEPT ![field] = value]
    /\ h' = [h EXCEPT !.edits = @ + 1]
    /\ UNCHANGED <<sh, vm, call, rsp, gen, tr, s, ret>>

\* r.URL = ... (the field is public and has no builder)
SetURL == \E url \in {BadURL} : Edit("URL", url)
WithForm == \E form \in FormChoices : Edit("Form", form)
WithBody == \E body \in BodyChoices : Edit("Body", body)
WithPath == \E path \in Paths : Edit("Path", path)
WithParams == \E params \in ParamChoices : Edit("Params", params)
WithHeaders == \E headers \in HeaderChoices : Edit("Headers", headers)
WithProxyURL == \E proxyURL \in ProxyURLs : Edit("ProxyURL", proxyURL)
WithMiddleware == \E funcs \in MwLists : Edit("Middleware", funcs)
WithRetryOnTextMarkers == \E markers \in MarkerChoices : Edit("RetryOnTextMarkers", markers)
WithRetryOnStatusCodes == \E codeRanges \in CodeChoices : Edit("RetryOnStatusCodes", codeRanges)
WithAttempts == \E attempts \in 0..MaxAttempts : Edit("Attempts", attempts)
WithRetryDelayMillis == \E millis \in DelayChoices : Edit("RetryDelayMillis", millis)
WithTimeout == \E timeout \in Timeouts : Edit("Timeout", timeout)
\* (v1 has no Cookies field)
WithCookies == gen # "v1" /\ \E cookies \in CookieChoices : Edit("Cookies", cookies)

\* WithClient: a client of the caller's, its Transport an *http.Transport.
WithClient ==
    /\ s.pc = "idle"
    /\ h.edits < MaxEdits
    /\ gen = "v3"
    /\ tr.kind = "default"
    /\ tr' = [built |-> TRUE, kind |-> "custom", Proxy |-> <<>>, Timeout |-> 0]
    /\ h' = [h EXCEPT !.edits = @ + 1]
    /\ UNCHANGED <<sh, vm, call, rsp, gen, r, s, ret>>

(***************************************************************************)
(* Middleware: closures over the Req, each with one of these effects.      *)
(***************************************************************************)
ApplyMiddleware(kind, req, now) ==
    CASE kind = "StampHeaders" ->
            [req EXCEPT !.Headers = MkVals(<<HeaderAppJSON, Val(<<"Now">>, Itoa(now))>>)]
      [] kind = "ToggleProxy" ->
            [req EXCEPT !.ProxyURL = IF @ = <<>> THEN Proxy1 ELSE <<>>]
      [] kind = "MoreAttempts" ->
            [req EXCEPT !.Attempts = IF @ < MaxAttempts THEN @ + 1 ELSE @]
      [] kind = "TogglePath" ->
            [req EXCEPT !.Path = IF @ = BadURL THEN GoodPath ELSE BadURL]

(***************************************************************************)
(* Send.                                                                   *)
(***************************************************************************)
\* Send is called.
Call(req) ==
    /\ s.pc = "idle"
    /\ h.sends < MaxSends
    /\ r' = req
    /\ s' = SendLocals
    /\ ret' = NoRet
    /\ h' = NewHistory(h.sends + 1, h.edits + (IF req = r THEN 0 ELSE 1), req)
    /\ UNCHANGED <<sh, vm, call, rsp, gen, tr>>

\* A shortcut assigns Method and calls Send; an assignment that changes the
\* field counts as one of the caller's field assignments.
Shortcut(method) ==
    /\ r.Method = method \/ h.edits < MaxEdits
    /\ Call([r EXCEPT !.Method = method])

Send == Call(r)
Get == Shortcut("GET")
Post == Shortcut("POST")
Put == Shortcut("PUT")
Delete == Shortcut("DELETE")
Patch == Shortcut("PATCH")
Options == Shortcut("OPTIONS")

\* A loop that runs one attempt too many.
LoopContinuesOneMore(attempt, limit) == attempt <= limit + 1

\* The loop condition of Send.
LoopContinues(attempt, limit) == attempt <= limit

\* for attempt = 1; attempt <= r.Attempts; attempt++ { shouldRetry := false
LoopCheck ==
    /\ s.pc = "loop"
    /\ IF LoopContinues(s.attempt, r.Attempts)
       THEN /\ s' = [s EXCEPT !.pc = "mw", !.shouldRetry = FALSE,
                              !.funcs = r.Middleware, !.i = 1]
            /\ h' = [h EXCEPT !.attempts = @ + 1, !.mwSeq = <<>>,
                              !.out = NoOutcome]
       ELSE /\ s' = [s EXCEPT !.pc = "finish"]
            /\ h' = h
    /\ UNCHANGED <<sh, vm, call, rsp, gen, r, tr, ret>>

\* A range loop that leaves out the last callback.
MiddlewareDoneEarly(i, funcs) == i >= Len(funcs)

\* The range loop over the middleware has called every callback.
MiddlewareDone(i, funcs) == i > Len(funcs)

\* for _, f := range r.Middleware { f() }: one callback.
CallMiddleware ==
    /\ s.pc = "mw"
    /\ ~MiddlewareDone(s.i, s.funcs)
    /\ r' = ApplyMiddleware(s.funcs[s.i], r, s.attempt)
    /\ s' = [s EXCEPT !.i = @ + 1]
    /\ h' = [h EXCEPT !.mwCalls = @ + 1, !.mwSeq = Append(@, s.i),
                      !.limitChanged = @ \/ r'.Attempts # r.Attempts]
    /\ UNCHANGED <<sh, vm, call, rsp, gen, tr, ret>>

\* "first time or after middleware": the condition under which an attempt
\* builds the request (r.client == nil in v1 and v2, r.reqRaw == nil in v3).
RebuildNeeded(g, req, client) ==
    \/ IF g = "v3" THEN req.reqRaw.nil ELSE ~client.built
    \/ Len(req.Middleware) > 0

\* The request body: from Form (Data) when it is not nil, else Body.
ReqBody(req) == IF ~req.Form.nil THEN URLEncode(req.Form.v) ELSE req.Body

\* http.NewRequest, then setCookies (v2, v3) and setHeaders.
MakeRequest(g, req, fullURL) ==
    [nil |-> FALSE, Method |-> req.Method, URL |-> fullURL, Body |-> ReqBody(req),
     BodyRead |-> FALSE,
     Header |-> SetHeaders(req.Headers.v),
     Cookies |-> IF g = "v1" THEN <<>> ELSE req.Cookies]

\* The client and transport after the first lines of the build closure.
\*   kind "fail": the proxy url does not parse and the closure returns (v3);
\*   kind "panic": the type assertion on a nil Transport panics (v3).
ConfigureClient(g, req, client) ==
    LET proxyOK == req.ProxyURL # <<>> /\ UrlParses(req.ProxyURL) IN
    CASE g = "v1" ->
            [kind |-> "ok",
             client |-> [client EXCEPT !.built = TRUE, !.Timeout = req.Timeout,
                                       !.Proxy = IF proxyOK THEN req.ProxyURL ELSE <<>>]]
      [] g = "v2" ->
            [kind |-> "ok",
             client |-> [client EXCEPT !.built = TRUE, !.Timeout = req.Timeout,
                                       !.Proxy = IF proxyOK THEN req.ProxyURL ELSE @]]
      [] g = "v3" ->
            LET c == [client EXCEPT !.Timeout = req.Timeout] IN
            IF req.ProxyURL = <<>> THEN [kind |-> "ok", client |-> c]
            ELSE IF ~UrlParses(req.ProxyURL) THEN [kind |-> "fail", client |-> c]
            ELSE IF c.kind = "default" THEN [kind |-> "panic", client |-> c]
            ELSE [kind |-> "ok", client |-> [c EXCEPT !.Proxy = req.ProxyURL]]

\* A Send that returns its own err whatever the closure returned.
BuildErrorSwallowed(g, kind, sendErr, buildErr) == sendErr

\* The error Send returns when the build closure fails.  In v3 the closure's
\* proxy error is a variable of its own (proxyURL, err := url.Parse) and Send
\* returns its own err, which the closure did not assign.
BuildError(g, kind, sendErr, buildErr) ==
    IF g = "v3"
    THEN IF kind = "badproxy" THEN sendErr ELSE Err(buildErr)
    ELSE Wrap(Err(buildErr), <<"errow: ">>)

\* The attempt's build, when the middleware has run.
Build ==
    /\ s.pc = "mw"
    /\ MiddlewareDone(s.i, s.funcs)
    /\ IF ~RebuildNeeded(gen, r, tr)
       THEN /\ s' = [s EXCEPT !.pc = "do"]
            /\ UNCHANGED <<r, tr, ret, h>>
       ELSE LET cc == ConfigureClient(gen, r, tr)
                u == BuildFullURL(r.URL, r.Path, r.Params)
            IN  /\ tr' = cc.client
                /\ CASE cc.kind = "panic" ->
                          /\ s' = [s EXCEPT !.pc = "panic"]
                          /\ UNCHANGED <<r, ret, h>>
                     [] cc.kind = "fail" ->
                          /\ s' = [s EXCEPT !.pc = "idle"]
                          /\ ret' = Ret(NoEnvelope, BuildError(gen, "badproxy", s.err, <<>>))
                          /\ UNCHANGED <<r, h>>
                     [] cc.kind = "ok" /\ ~u.ok ->
                          /\ s' = [s EXCEPT !.pc = "idle", !.fullURL = u.url,
                                            !.err = Err(u.err)]
                          /\ ret' = Ret(NoEnvelope, BuildError(gen, "badurl", s.err, u.err))
                          /\ h' = [h EXCEPT !.urlFailedAt = s.attempt]
                          /\ r' = r
                     [] cc.kind = "ok" /\ u.ok ->
                          /\ r' = [r EXCEPT !.reqRaw = MakeRequest(gen, r, u.url)]
                          /\ s' = [s EXCEPT !.pc = "do", !.fullURL = u.url]
                          /\ h' = [h EXCEPT !.builds = @ + 1, !.builtAt = s.attempt]
                          /\ ret' = ret
    /\ UNCHANGED <<sh, vm, call, rsp, gen>>

\* What the transport can answer to one dispatch.
\*   kind "transport": Client.Do returns an error and no response;
\*   kind "redirect": Client.Do returns an error and the last response, its
\*       body closed (the redirect policy stopped the request);
\*   kind "read": a response whose body fails to read after a part of it;
\*   kind "ok": a response whose body is read to its end.
Outcomes ==
    {[kind |-> "transport", StatusCode |-> 0, body |-> <<>>],
     [kind |-> "redirect", StatusCode |-> 302, body |-> <<>>]}
    \cup {[kind |-> "read", StatusCode |-> c, body |-> b] : c \in Statuses, b \in Partials}
    \cup {[kind |-> "ok", StatusCode |-> c, body |-> b] : c \in Statuses, b \in Bodies}

\* err.Error() of the *url.Error Client.Do returns: it quotes the url.
TransportErrText(req) == <<req.Method, " ">> \o req.URL \o <<": dial tcp: refused">>
RedirectErrText(req) == <<req.Method, " ">> \o req.URL \o <<": stopped after 10 redirects">>
ReadErrText == <<"unexpected EOF">>

\* A closure that records a reason only when none is recorded yet.
AfterDoFirstReason(loc, req, o) ==
    CASE o.kind = "transport" ->
            [loc EXCEPT !.respRaw = NoResp, !.err = Err(TransportErrText(req)),
                        !.shouldRetry = TRUE,
                        !.reason = IF @ = <<>> THEN TransportErrText(req) ELSE @]
      [] o.kind = "redirect" ->
            [loc EXCEPT !.respRaw = [nil |-> FALSE, StatusCode |-> o.StatusCode,
                                     att |-> loc.attempt],
                        !.err = Err(RedirectErrText(req)),
                        !.shouldRetry = TRUE,
                        !.reason = IF @ = <<>> THEN RedirectErrText(req) ELSE @]
      [] o.kind = "read" ->
            [loc EXCEPT !.respRaw = [nil |-> FALSE, StatusCode |-> o.StatusCode,
                                     att |-> loc.attempt],
                        !.content = Bytes(o.body), !.err = Err(ReadErrText),
                        !.shouldRetry = TRUE,
                        !.reason = IF @ = <<>> THEN ReadErrText ELSE @]
      [] o.kind = "ok" ->
            [loc EXCEPT !.respRaw = [nil |-> FALSE, StatusCode |-> o.StatusCode,
                                     att |-> loc.attempt],
                        !.content = Bytes(o.body), !.err = NoErr]

\* The closure around Client.Do and ReadAll: Send's locals afterwards.
AfterDo(loc, req, o) ==
    CASE o.kind = "transport" ->
            [loc EXCEPT !.respRaw = NoResp, !.err = Err(TransportErrText(req)),
                        !.shouldRetry = TRUE, !.reason = TransportErrText(req)]
      [] o.kind = "redirect" ->
            [loc EXCEPT !.respRaw = [nil |-> FALSE, StatusCode |-> o.StatusCode,
                                     att |-> loc.attempt],
                        !.err = Err(RedirectErrText(req)),
                        !.shouldRetry = TRUE, !.reason = RedirectErrText(req)]
      [] o.kind = "read" ->
            [loc EXCEPT !.respRaw = [nil |-> FALSE, StatusCode |-> o.StatusCode,
                                     att |-> loc.attempt],
                        !.content = Bytes(o.body), !.err = Err(ReadErrText),
                        !.shouldRetry = TRUE, !.reason = ReadErrText]
      [] o.kind = "ok" ->
            [loc EXCEPT !.respRaw = [nil |-> FALSE, StatusCode |-> o.StatusCode,
                                     att |-> loc.attempt],
                        !.content = Bytes(o.body), !.err = NoErr]

\* A closure that registers the Close after the body has been read.
BodyClosedAfterRead(g, o) == o.kind = "ok"

\* The closure closes the body of the response it got: in v1 and v2 the
\* Close is deferred for every response that is not nil, in v3 for every
\* response that came without an error.
BodyClosed(g, o) ==
    IF g = "v3" THEN o.kind \in {"read", "ok"}
    ELSE o.kind \in {"redirect", "read", "ok"}

\* The transport has read the body reader of the request to its end (it
\* does so once it has a connection; a refused dial leaves it alone).
BodyReadBy(req, o) == req.BodyRead \/ (o.kind # "transport" /\ req.Body # <<>>)

\* respRaw, err = r.Client.Do(r.reqRaw), then the body is read and closed.
Do ==
    /\ s.pc = "do"
    /\ IF r.reqRaw.nil
       THEN \* Client.Do dereferences a nil request
            /\ s' = [s EXCEPT !.pc = "panic"]
            /\ h' = h
            /\ r' = r
       ELSE \E o \in Outcomes :
            /\ s' = [AfterDo(s, r.reqRaw, o) EXCEPT !.pc = "classify"]
            /\ r' = [r EXCEPT !.reqRaw.BodyRead = BodyReadBy(r.reqRaw, o)]
            /\ h' = [h EXCEPT !.dispatches = @ + 1, !.out = o, !.fields = r,
                              !.sent = [req |-> r.reqRaw, Proxy |-> tr.Proxy,
                                        Timeout |-> tr.Timeout],
                              \* a response without error comes with an open body
                              !.open = @ + (IF o.kind \in {"read", "ok"} /\ ~BodyClosed(gen, o)
                                            THEN 1 ELSE 0),
                              !.varied = @ \/ (o.kind \notin {"ok"}
                                                 /\ s.reason # <<>> /\ s'.reason # s.reason)]
    /\ UNCHANGED <<sh, vm, call, rsp, gen, tr, ret>>

\* The reasons recorded for a status-range and a text-marker retry.
StatusReason(code, content) ==
    <<"finally got unwanted status code '">> \o Itoa(code)
        \o <<"' and content '">> \o content \o <<"'">>
MarkerReason(code, content) ==
    <<"finally got unwanted text marker in resp with status code '">> \o Itoa(code)
        \o <<"' and content '">> \o content \o <<"'">>

\* A loop body that looks for the text markers before the status ranges.
ClassificationMarkersFirst(loc, req) ==
    IF loc.shouldRetry THEN [retry |-> TRUE, reason |-> loc.reason]
    ELSE IF ShouldRetryOnTextMarker(loc.content.b, req.RetryOnTextMarkers)
         THEN [retry |-> TRUE,
               reason |-> MarkerReason(loc.respRaw.StatusCode, loc.content.b)]
    ELSE IF ShouldRetryOnStatusCode(loc.respRaw.StatusCode, req.RetryOnStatusCodes)
         THEN [retry |-> TRUE,
               reason |-> StatusReason(loc.respRaw.StatusCode, loc.content.b)]
    ELSE [retry |-> FALSE, reason |-> loc.reason]

\* A loop body without the text-marker check.
ClassificationNoMarkers(loc, req) ==
    IF loc.shouldRetry THEN [retry |-> TRUE, reason |-> loc.reason]
    ELSE IF ShouldRetryOnStatusCode(loc.respRaw.StatusCode, req.RetryOnStatusCodes)
         THEN [retry |-> TRUE,
               reason |-> <<"status">>]
    ELSE [retry |-> FALSE, reason |-> loc.reason]

\* The rest of the loop body after the closure: which way the attempt goes,
\* and the reason it records.
Classification(loc, req) ==
    IF loc.shouldRetry THEN [retry |-> TRUE, reason |-> loc.reason]
    ELSE IF ShouldRetryOnStatusCode(loc.respRaw.StatusCode, req.RetryOnStatusCodes)
         THEN [retry |-> TRUE,
               reason |-> StatusReason(loc.respRaw.StatusCode, loc.content.b)]
    ELSE IF ShouldRetryOnTextMarker(loc.content.b, req.RetryOnTextMarkers)
         THEN [retry |-> TRUE,
               reason |-> MarkerReason(loc.respRaw.StatusCode, loc.content.b)]
    ELSE [retry |-> FALSE, reason |-> loc.reason]

\* A loop body without the break.
AfterSuccessNoBreak == "delay"

\* Where the loop goes after a successful attempt (break).
AfterSuccess == "finish"

Classify ==
    /\ s.pc = "classify"
    /\ LET c == Classification(s, r) IN
       IF c.retry
       THEN /\ s' = [s EXCEPT !.pc = "delay", !.reason = c.reason]
            /\ h' = [h EXCEPT !.retried = @ + 1,
                              !.varied = @ \/ (~s.shouldRetry /\ s.reason # <<>>
                                                 /\ c.reason # s.reason)]
       ELSE /\ s' = [s EXCEPT !.pc = AfterSuccess, !.success = TRUE]
            /\ h' = [h EXCEPT !.successAt = s.attempt]
    /\ UNCHANGED <<sh, vm, call, rsp, gen, r, tr, ret>>

\* delay(delayMillis) waits when its argument is positive.
DelayWaits(delayMillis) == delayMillis > 0

\* A continue that goes back to the loop condition without attempt++.
DelayNoIncrement ==
    /\ s.pc = "delay"
    /\ s' = [s EXCEPT !.pc = "loop"]
    /\ h' = [h EXCEPT !.delays = @ + 1,
                      !.waits = @ + (IF DelayWaits(r.RetryDelayMillis) THEN 1 ELSE 0)]
    /\ UNCHANGED <<sh, vm, call, rsp, gen, r, tr, ret>>

\* delay(r.RetryDelayMillis); continue
Delay ==
    /\ s.pc = "delay"
    /\ s' = [s EXCEPT !.pc = "loop", !.attempt = @ + 1]
    /\ h' = [h EXCEPT !.delays = @ + 1,
                      !.waits = @ + (IF DelayWaits(r.RetryDelayMillis) THEN 1 ELSE 0)]
    /\ UNCHANGED <<sh, vm, call, rsp, gen, r, tr, ret>>

\* myResp = Resp{Content: content, RespRaw: respRaw}
Envelope(loc) == [nil |-> FALSE, Content |-> loc.content, RespRaw |-> loc.respRaw]

\* The message of the final error: the reason, with method and url in front
\* unless the reason contains the url.
FailedMsg(method, fullURL, reason) ==
    <<"FAILED: ">> \o (IF Contains(reason, fullURL) THEN reason
                       ELSE <<method, " ">> \o fullURL \o <<": ">> \o reason)

\* A return that drops the envelope on failure.
ResultNoEnvelope(loc, req) ==
    IF ~loc.success
    THEN Ret(NoEnvelope, Err(FailedMsg(req.Method, loc.fullURL, loc.reason)))
    ELSE Ret(Envelope(loc), NoErr)

\* What Send returns after the loop.
Result(loc, req) ==
    IF ~loc.success
    THEN Ret(Envelope(loc), Err(FailedMsg(req.Method, loc.fullURL, loc.reason)))
    ELSE Ret(Envelope(loc), NoErr)

Finish ==
    /\ s.pc = "finish"
    /\ ret' = Result(s, r)
    /\ s' = Idle
    /\ UNCHANGED <<sh, vm, call, rsp, gen, r, tr, h>>

Next ==
    \/ SetURL
    \/ WithForm \/ WithBody \/ WithPath \/ WithParams \/ WithHeaders
    \/ WithProxyURL \/ WithMiddleware \/ WithRetryOnTextMarkers
    \/ WithRetryOnStatusCodes \/ WithAttempts \/ WithRetryDelayMillis
    \/ WithTimeout \/ WithCookies \/ WithClient
    \/ Send \/ Get \/ Post \/ Put \/ Delete \/ Patch \/ Options
    \/ LoopCheck \/ CallMiddleware \/ Build \/ Do \/ Classify \/ Delay \/ Finish

Spec == Init /\ [][Next]_vars

(***************************************************************************)
(* Vals: URLEncode, JSON and Extend applied to Vals values in memory.      *)
(***************************************************************************)
\* The entries the Vals of a behaviour are made of: names (one of them with
\* a space), plain values, a value with a separator, an array, a value that
\* only starts like an object, and the JSON() of another Vals.
Names == {<<"n1">>, <<"a", " ", "b">>}
NestedJSON == JSON(<<Val(<<"k">>, <<"v">>)>>)
Values ==
    {<<"v1">>, <<"x", "&", "y">>, <<"[", "1", "]">>, <<"{", "x">>, NestedJSON,
     <<"q", "\"", "z">>, <<"b", "\\", "n">>}
Entries == {Val(n, v) : n \in Names, v \in Values}
MoreEntries == {Val(<<"m1">>, <<"w1">>), Val(<<"m2">>, <<"w2">>)}
SeqsUpTo(S, n) == UNION {[1..k -> S] : k \in 0..n}
ValsChoices == SeqsUpTo(Entries, MaxLen)
MoreChoices == SeqsUpTo(MoreEntries, MaxLen)
\* The arguments of a second Extend: entries the first one did not add.
LastChoices == SeqsUpTo({Val(<<"m3">>, <<"w3">>)}, MaxLen)

\* A Vals a with the given entries and spare capacity (a literal has none; a
\* Vals made by make or by an earlier append may have some).
NewVals(entries, spare) ==
    LET cap == Len(entries) + spare IN
    [NoVals EXCEPT !.pc = "start",
                   !.heap = IF cap = 0 THEN <<>> ELSE <<entries \o Cells(spare)>>,
                   !.a = [arr |-> IF cap = 0 THEN 0 ELSE 1, len |-> Len(entries),
                          cap |-> cap],
                   !.vals = entries]

InitVals ==
    /\ gen = "v3"
    /\ r = New(gen, BaseURL)
    /\ tr = NewClient(gen)
    /\ s = Idle
    /\ ret = NoRet
    /\ h = NewHistory(0, 0, r)
    /\ sh = NoShared
    /\ vm \in {NewVals(entries, spare) : entries \in ValsChoices, spare \in 0..MaxSpare}
    /\ call = NoCall
    /\ rsp = NoRespValue

\* The Vals after a call of one of its reading methods returned: the result
\* is kept, and compared with what the same call returned before.
Returned(v, pc, method, entry, out) ==
    [v EXCEPT !.pc = pc, !.out = out, !.calls = @ + 1,
              !.key = <<method, entry>>,
              !.repeated = @ \/ v.key = <<method, entry>>,
              !.same = @ /\ (v.key = <<method, entry>> => v.out = out)]

\* The states in which the reading methods are called: on the Vals as it was
\* made, or after another reading method.
Readable == vm.pc \in {"start", "urlencoded", "json", "string"} /\ vm.calls < MaxCalls

\* A URLEncode that escapes the entries where they are (the entries of a Vals
\* are pointers).
CallURLEncodeInPlace ==
    /\ Readable
    /\ LET vals == Content(vm.heap, vm.a)
           esc == [k \in 1..Len(vals) |->
                     Val(QueryEscape(vals[k].Name), QueryEscape(vals[k].Value))]
       IN  vm' = [Returned(vm, "urlencoded", "URLEncode", 0, URLEncode(vals))
                      EXCEPT !.heap = IF vm.a.arr = 0 THEN @
                                      ELSE [@ EXCEPT ![vm.a.arr] =
                                              [j \in 1..vm.a.cap |->
                                                  IF j <= vm.a.len THEN esc[j] ELSE @[j]]]]
    /\ UNCHANGED <<sh, gen, r, tr, s, ret, h, call, rsp>>

\* a.URLEncode()
CallURLEncode ==
    /\ Readable
    /\ vm' = Returned(vm, "urlencoded", "URLEncode", 0, URLEncode(Content(vm.heap, vm.a)))
    /\ UNCHANGED <<sh, gen, r, tr, s, ret, h, call, rsp>>

\* a.JSON()
CallJSON ==
    /\ Readable
    /\ vm' = Returned(vm, "json", "JSON", 0, JSON(Content(vm.heap, vm.a)))
    /\ UNCHANGED <<sh, gen, r, tr, s, ret, h, call, rsp>>

\* val.String: the entry as a JSON object of its own, its value embedded as
\* it is when it has the signature of an object or array.
ValString(v) ==
    IF HasSeqSig(v.Value)
    THEN <<"{", "\"">> \o v.Name \o <<"\"", ":">> \o v.Value \o <<"}">>
    ELSE <<"{", "\"">> \o v.Name \o <<"\"", ":", "\"">> \o v.Value \o <<"\"", "}">>

\* a[i].String()
CallString ==
    /\ Readable
    /\ \E i \in 1..vm.a.len :
          vm' = Returned(vm, "string", "String", i, ValString(Content(vm.heap, vm.a)[i]))
    /\ UNCHANGED <<sh, gen, r, tr, s, ret, h, call, rsp>>

\* Vals whose values are of any type (val{K, V interface{}}): a value is a
\* string or a number or boolean, the latter given by its fmt.Sprint form.
KV(k, v) == [K |-> k, V |-> v]
Str(text) == [str |-> TRUE, text |-> text]
Lit(text) == [str |-> FALSE, text |-> text]

\* A rendering that puts every value that is no object or array in quotes.
JSONValueQuoted(v) ==
    IF v.str /\ HasSeqSig(v.text) THEN v.text ELSE <<"\"">> \o v.text \o <<"\"">>

\* The value of an entry in JSON(): a string as Vals.JSON has it, any other
\* value in its literal form.
JSONValue(v) ==
    IF ~v.str THEN v.text
    ELSE IF HasSeqSig(v.text) THEN v.text
    ELSE <<"\"">> \o v.text \o <<"\"">>

RECURSIVE JSONAnyFrom(_, _, _)
JSONAnyFrom(kvs, i, json) ==
    IF i > Len(kvs) THEN json \o <<"}">>
    ELSE JSONAnyFrom(kvs, i + 1,
             json \o (IF i > 1 THEN <<",">> ELSE <<>>)
                  \o <<"\"">> \o kvs[i].K \o <<"\"", ":">> \o JSONValue(kvs[i].V))

JSONAny(kvs) == JSONAnyFrom(kvs, 1, <<"{">>)

KVEntries ==
    {KV(<<"n1">>, Str(<<"v1">>)), KV(<<"n2">>, Lit(<<"2">>)),
     KV(<<"n3">>, Lit(<<"true">>)), KV(<<"n4">>, Str(<<"[", "1", "]">>))}
KVChoices == SeqsUpTo(KVEntries, MaxLen)

\* kvs.JSON() of a Vals literal with values of any type
CallJSONAny ==
    /\ vm.pc = "start"
    /\ \E kvs \in KVChoices :
          vm' = [vm EXCEPT !.pc = "jsonany", !.kvs = kvs, !.out = JSONAny(kvs)]
    /\ UNCHANGED <<sh, gen, r, tr, s, ret, h, call, rsp>>

\* An append that puts the new entries in front.
GoAppendInFront(heap, slice, more, spare) ==
    [heap  |-> Append(heap, more \o Content(heap, slice) \o Cells(spare)),
     slice |-> [arr |-> Len(heap) + 1, len |-> slice.len + Len(more),
                cap |-> slice.len + Len(more) + spare]]

\* append(vals, more...): within the capacity the entries are written into
\* the backing array of vals, behind its len; otherwise a new array is
\* allocated (with the spare capacity the runtime chooses) and filled.
GoAppend(heap, slice, more, spare) ==
    LET n == slice.len + Len(more) IN
    IF n <= slice.cap
    THEN [heap  |-> IF Len(more) = 0 THEN heap
                    ELSE [heap EXCEPT ![slice.arr] =
                            [j \in 1..slice.cap |->
                                IF j > slice.len /\ j <= n THEN more[j - slice.len]
                                ELSE @[j]]],
          slice |-> [slice EXCEPT !.len = n]]
    ELSE [heap  |-> Append(heap, Content(heap, slice) \o more \o Cells(spare)),
          slice |-> [arr |-> Len(heap) + 1, len |-> n, cap |-> n + spare]]

\* Extend: return append(vals, more...)
Extend(heap, vals, more, spare) == GoAppend(heap, vals, more, spare)

\* x := a.Extend(more)
CallExtend ==
    /\ vm.pc = "start"
    /\ \E more \in MoreChoices, spare \in 0..MaxSpare :
          LET e == Extend(vm.heap, vm.a, more, spare) IN
          vm' = [vm EXCEPT !.pc = "extended", !.heap = e.heap, !.x = e.slice,
                           !.more = more]
    /\ UNCHANGED <<sh, gen, r, tr, s, ret, h, call, rsp>>

\* y := a.Extend(more), on the same receiver
CallExtendAgain ==
    /\ vm.pc = "extended"
    /\ \E more \in LastChoices, spare \in 0..MaxSpare :
          LET e == Extend(vm.heap, vm.a, more, spare) IN
          vm' = [vm EXCEPT !.pc = "extended2", !.heap = e.heap, !.y = e.slice,
                           !.last = more]
    /\ UNCHANGED <<sh, gen, r, tr, s, ret, h, call, rsp>>

NextVals ==
    CallURLEncode \/ CallJSON \/ CallString \/ CallJSONAny \/ CallExtend \/ CallExtendAgain

SpecVals == InitVals /\ [][NextVals]_vars

(***************************************************************************)
(* Properties of Send.                                                     *)
(***************************************************************************)
\* The attempt limit when Send was called.
LimitAtCall == h.atCall.Attempts
\* The number of callbacks registered when Send was called.
Registered == Len(h.atCall.Middleware)
\* Send has returned and every attempt it entered was marked for retry.
Exhausted == ret.set /\ h.successAt = 0 /\ h.retried = h.attempts
\* Send has returned from inside the loop because a build failed.
BuildFailed == ret.set /\ h.successAt = 0 /\ h.retried < h.attempts

\* C1 as stated: with attempt limit N at the call, Send dispatches at most N
\* times, and exactly N times, returning an error, when every attempt is
\* marked for retry.
C1_Original ==
    /\ h.dispatches <= LimitAtCall
    /\ Exhausted => h.dispatches = LimitAtCall /\ ~ret.err.nil

\* C1 amended: the same, for a Send during which no middleware callback
\* changes the attempt limit.
C1_DispatchBound ==
    ~h.limitChanged =>
        /\ h.dispatches <= LimitAtCall
        /\ Exhausted => h.dispatches = LimitAtCall /\ ~ret.err.nil

C1_Witness ==
    Exhausted /\ ~h.limitChanged /\ h.dispatches = LimitAtCall /\ LimitAtCall >= 2

\* C2: Send returns a nil error exactly when some attempt was classified as
\* success.
C2_Original == ret.set => (ret.err.nil <=> h.successAt > 0)

\* The declarative condition of C3 on an outcome and the retry policy.
SuccessCondition(o, req) ==
    /\ o.kind = "ok"
    /\ ~\E k \in DOMAIN req.RetryOnStatusCodes :
          /\ req.RetryOnStatusCodes[k][1] <= o.StatusCode
          /\ o.StatusCode <= req.RetryOnStatusCodes[k][2]
    /\ ~\E k \in DOMAIN req.RetryOnTextMarkers :
          Contains(o.body, req.RetryOnTextMarkers[k])

\* C3: a classified attempt is a success exactly when the dispatch returned no
\* transport error, the body was read, the status lies in no retry range and
\* the body contains no text marker; every other attempt is marked for retry.
C3_SuccessIff ==
    (s.pc = "delay" \/ (s.pc = "finish" /\ s.success)) =>
        /\ s.success <=> SuccessCondition(h.out, r)
        /\ s.success <=> h.successAt = s.attempt
        /\ ~s.success <=> (s.pc = "delay" /\ h.retried = s.attempt)

C3_Witness ==
    /\ s.pc = "delay"
    /\ h.out.kind = "ok"
    /\ h.out.StatusCode = 200
    /\ r.RetryOnTextMarkers # <<>>
    /\ h.retried = 2

\* C4: once an attempt is classified as success, the only step Send takes is
\* its return: no callback, build, dispatch or delay follows, and the return
\* carries that attempt's envelope and a nil error.
C4_SuccessEndsLoop ==
    [][s.success =>
          /\ s'.pc = "idle"
          /\ h' = h /\ r' = r /\ tr' = tr
          /\ ret'.set /\ ret'.err.nil
          /\ ret'.resp = [nil |-> FALSE, Content |-> Bytes(h.out.body),
                          RespRaw |-> [nil |-> FALSE, StatusCode |-> h.out.StatusCode,
                                       att |-> h.successAt]]]_vars

C4_Witness ==
    /\ ret.set /\ ret.err.nil
    /\ h.successAt = 2
    /\ r.Attempts = 3
    /\ Registered > 0
    /\ h.dispatches = 2

\* C5: in every attempt the callbacks run once each in registration order,
\* all of them before the attempt's build and dispatch; k attempts with m
\* callbacks make k*m invocations.
C5_MiddlewareOrder ==
    /\ h.mwSeq = [j \in 1..Len(h.mwSeq) |-> j]
    /\ Len(h.mwSeq) <= Registered
    /\ h.attempts > 0 => h.mwCalls = (h.attempts - 1) * Registered + Len(h.mwSeq)
    /\ (s.pc \in {"do", "classify", "delay"} \/ (h.builtAt = h.attempts /\ h.attempts > 0))
           => Len(h.mwSeq) = Registered
    /\ h.dispatches <= h.attempts
    /\ s.pc = "classify" => h.dispatches = h.attempts
    /\ ret.set => h.mwCalls = h.attempts * Registered

C5_Witness ==
    ret.set /\ Registered = 2 /\ h.attempts = 3 /\ h.mwCalls = 6 /\ h.dispatches = 3

\* The request a Req with the given fields materializes to, and the proxy
\* its transport is to use.
Materialized(g, f) ==
    [req |-> [nil |-> FALSE, Method |-> f.Method,
              URL |-> BuildFullURL(f.URL, f.Path, f.Params).url,
              Body |-> ReqBody(f),
              BodyRead |-> FALSE,
              Header |-> {<<f.Headers.v[k].Name, f.Headers.v[k].Value>> :
                             k \in DOMAIN f.Headers.v},
              Cookies |-> IF g = "v1" THEN <<>> ELSE f.Cookies],
     Proxy |-> IF UrlParses(f.ProxyURL) THEN f.ProxyURL ELSE <<>>]

\* The request and proxy of the last dispatch.
Dispatched == [req |-> h.sent.req, Proxy |-> h.sent.Proxy]

\* C6: with middleware registered, each attempt rebuilds the request, and the
\* request dispatched is the materialization (method, url, query, headers,
\* cookies, body, proxy) of the Req fields as the attempt's middleware left
\* them.
C6_Original ==
    (Registered > 0 /\ s.pc = "classify") =>
        /\ h.builtAt = s.attempt
        /\ Dispatched = Materialized(gen, h.fields)

\* C6 without the proxy: the request itself is the materialization.
C6_RequestOnly ==
    (Registered > 0 /\ s.pc = "classify") =>
        /\ h.builtAt = s.attempt
        /\ h.sent.req = Materialized(gen, h.fields).req

\* C7: the request dispatched on a Send's first attempt was built during that
\* Send.
C7_Original == h.dispatches > 0 => h.builds > 0

\* C8: every dispatch uses the fields the Req holds when Send is called: the
\* method of the shortcut, and, the fields not being changed by middleware,
\* the materialization of those fields.
C8_Original ==
    h.dispatches > 0 =>
        /\ h.sent.req.Method = h.atCall.Method
        /\ Registered = 0 => h.sent.req = Materialized(gen, h.atCall).req

\* C9: the envelope Send returns holds the outcome of the last dispatched
\* attempt only: after a transport error nothing of an earlier response,
\* otherwise the body and the response of the last attempt.
C9_Original ==
    (ret.set /\ ~ret.resp.nil /\ h.dispatches > 0) =>
        IF h.out.kind = "transport"
        THEN ret.resp.Content.nil /\ ret.resp.RespRaw.nil
        ELSE /\ ret.resp.Content = Bytes(h.out.body)
             /\ ret.resp.RespRaw = [nil |-> FALSE, StatusCode |-> h.out.StatusCode,
                                    att |-> h.dispatches]

\* C10 as stated: a non-nil error always comes with a non-nil envelope.
C10_Original == (ret.set /\ ~ret.err.nil) => ~ret.resp.nil

\* C10 amended: a Send that ran out of attempts returns its error with a
\* non-nil envelope; a Send whose build failed returns a nil envelope.
C10_EnvelopeOnExhaustion ==
    /\ Exhausted => ~ret.err.nil /\ ~ret.resp.nil
    /\ BuildFailed => ret.resp.nil
    /\ (ret.set /\ ~ret.err.nil) => Exhausted \/ BuildFailed

C10_Witness ==
    Exhausted /\ ~ret.err.nil /\ ~ret.resp.nil /\ h.dispatches = 3 /\ ~ret.resp.RespRaw.nil

\* The Send that returned was called with an unparsable proxy url, which no
\* callback of it assigns.
BadProxySend ==
    /\ ret.set
    /\ ~UrlParses(h.atCall.ProxyURL)
    /\ \A k \in DOMAIN h.atCall.Middleware : h.atCall.Middleware[k] # "ToggleProxy"

\* C11: a Send whose ProxyURL is set and does not parse dispatches nothing
\* and returns a non-nil error.
C11_Original == BadProxySend => (h.dispatches = 0 /\ ~ret.err.nil)

\* C11, the part the newest Send keeps: the first Send of a Req with such a
\* ProxyURL dispatches nothing.
C11_NoDispatchV3 ==
    (BadProxySend /\ gen = "v3" /\ h.sends = 1) => h.dispatches = 0

\* A Send returned because buildFullURL failed in the build of an attempt.
URLFailed == ret.set /\ h.urlFailedAt > 0

\* C12: a Send that fails to build the url on attempt k returns a non-nil
\* error at once: attempt k neither dispatches nor delays (the k-1 attempts
\* before it did both), and with k = 1 nothing was dispatched at all.
C12_URLFailureAborts ==
    URLFailed =>
        /\ ~ret.err.nil
        /\ ret.resp.nil
        /\ h.dispatches = h.attempts - 1
        /\ h.delays = h.attempts - 1
        /\ h.urlFailedAt = h.attempts
        /\ h.builtAt < h.attempts
        /\ h.successAt = 0
        /\ h.attempts = 1 => (h.dispatches = 0 /\ h.sent = NoSent)

C12_Witness ==
    URLFailed /\ h.attempts = 2 /\ h.dispatches = 1 /\ h.delays = 1 /\ r.URL = BaseURL

\* C12 also for an unparsable base url, on the first attempt.
C12_WitnessBase ==
    URLFailed /\ h.attempts = 1 /\ r.URL = BadURL /\ h.dispatches = 0

\* The number of places at which sub occurs in s.
Count(text, sub) == Cardinality({i \in 1..Len(text) : MatchAt(text, sub, i)})

\* The Send ran out of attempts and its last attempt was answered with a
\* status in a retry range.
ExhaustedOnStatus ==
    /\ Exhausted /\ h.dispatches > 0
    /\ h.out.kind = "ok"
    /\ \E k \in DOMAIN h.fields.RetryOnStatusCodes :
          /\ h.fields.RetryOnStatusCodes[k][1] <= h.out.StatusCode
          /\ h.out.StatusCode <= h.fields.RetryOnStatusCodes[k][2]

\* C13: the message of such a Send's error contains the method, the url that
\* was dispatched and the last status code, each exactly once, whatever the
\* body of the response.
C13_Original ==
    ExhaustedOnStatus =>
        /\ ~ret.err.nil
        /\ Count(ret.err.msg, <<h.fields.Method>>) = 1
        /\ Count(ret.err.msg, h.sent.req.URL) = 1
        /\ Count(ret.err.msg, Itoa(h.out.StatusCode)) = 1

\* C13 for a Send that built its request and got a body without the url.
C13_PlainBody ==
    (ExhaustedOnStatus /\ h.builds > 0 /\ ~Contains(h.out.body, h.sent.req.URL)) =>
        /\ ~ret.err.nil
        /\ Count(ret.err.msg, <<h.fields.Method>>) = 1
        /\ Count(ret.err.msg, h.sent.req.URL) = 1
        /\ Count(ret.err.msg, Itoa(h.out.StatusCode)) = 1

\* The first Send of a Req no field of which was assigned after New.
FirstSendUnchanged == h.sends = 1 /\ h.edits = 0

\* C14: a Req sent as New made it has method GET, attempt limit 3, retry
\* ranges [[400,600]] and markers ["error","Error"], and dispatches exactly
\* 3 times when every response has a status in 400..600.
C14_Original ==
    FirstSendUnchanged =>
        /\ h.atCall.Method = "GET"
        /\ h.atCall.Attempts = 3
        /\ h.atCall.RetryOnStatusCodes = <<<<400, 600>>>>
        /\ h.atCall.RetryOnTextMarkers = <<<<"error">>, <<"Error">>>>
        /\ ExhaustedOnStatus => h.dispatches = 3

\* C15: a request built from a Req with a non-empty Body carries that Body,
\* whether Form is set or not.
C15_Original ==
    (s.pc = "classify" /\ h.builtAt = s.attempt /\ h.fields.Body # <<>>) =>
        h.sent.req.Body = h.fields.Body

\* C15 as the code has it: the form encoding whenever Form is not nil.
C15_FormFirst ==
    (s.pc = "classify" /\ h.builtAt = s.attempt) =>
        h.sent.req.Body = IF h.fields.Form.nil THEN h.fields.Body
                          ELSE URLEncode(h.fields.Form.v)

(***************************************************************************)
(* Properties of Vals (specification SpecVals).                            *)
(***************************************************************************)
\* parts[1] sep parts[2] sep ... parts[n]
RECURSIVE JoinWith(_, _)
JoinWith(parts, sep) ==
    IF parts = <<>> THEN <<>>
    ELSE IF Len(parts) = 1 THEN parts[1]
    ELSE parts[1] \o sep \o JoinWith(Tail(parts), sep)

\* enc(k)=enc(v) of one entry
EncPair(e) == QueryEscape(e.Name) \o <<"=">> \o QueryEscape(e.Value)

\* C16: URLEncode is enc(k1)=enc(v1)&...&enc(kn)=enc(vn) in input order,
\* entries with equal keys included, with exactly n-1 separators, none of
\* them leading or trailing, and the empty string for the empty or nil Vals.
C16_URLEncodeOrdered ==
    vm.pc = "urlencoded" =>
        LET n == Len(vm.vals) IN
        /\ vm.out = JoinWith([k \in 1..n |-> EncPair(vm.vals[k])], <<"&">>)
        /\ Count(vm.out, <<"&">>) = IF n = 0 THEN 0 ELSE n - 1
        /\ Count(vm.out, <<"=">>) = n
        /\ vm.out # <<>> => (vm.out[1] # "&" /\ vm.out[Len(vm.out)] # "&")
        /\ n = 0 => vm.out = <<>>

C16_Witness ==
    /\ vm.pc = "urlencoded"
    /\ Len(vm.vals) = 2
    /\ vm.vals[1].Name = vm.vals[2].Name
    /\ vm.vals[1].Value = <<"x", "&", "y">>
    /\ vm.vals[2].Value = <<"v1">>

\* t between double quotes
Quoted(t) == <<"\"">> \o t \o <<"\"">>

\* The value is written like a JSON object or array.
LooksLikeSeq(v) ==
    v # <<>> /\ <<v[1], v[Len(v)]>> \in {<<"{", "}">>, <<"[", "]">>}

\* "key":value of one entry
Rendered(e) ==
    Quoted(e.Name) \o <<":">> \o (IF LooksLikeSeq(e.Value) THEN e.Value
                                  ELSE Quoted(e.Value))

\* C17: JSON is '{', the entries in input order separated by ',', and '}';
\* an entry is "key": and then the value as it is when the value starts with
\* '{' and ends with '}' or starts with '[' and ends with ']', in double
\* quotes otherwise; the JSON() of a Vals used as a value is embedded as is.
C17_JSONRendering ==
    vm.pc = "json" =>
        LET n == Len(vm.vals) IN
        /\ vm.out = <<"{">> \o JoinWith([k \in 1..n |-> Rendered(vm.vals[k])], <<",">>)
                        \o <<"}">>
        /\ \A k \in 1..n :
              vm.vals[k].Value = NestedJSON =>
                  /\ Contains(vm.out, <<":">> \o NestedJSON)
                  /\ ~Contains(vm.out, Quoted(NestedJSON))

C17_Witness ==
    /\ vm.pc = "json"
    /\ Len(vm.vals) = 2
    /\ vm.vals[1].Value = NestedJSON
    /\ vm.vals[2].Value = <<"{", "x">>
    /\ vm.out = <<"{", "\"", "n1", "\"", ":", "{", "\"", "k", "\"", ":", "\"", "v", "\"", "}",
                  ",", "\"", "n1", "\"", ":", "\"", "{", "x", "\"", "}">>

\* C18: JSON writes a value that is no string (a number, a boolean) in its
\* literal form without quotes; Vals{{"n1","v1"},{"n2",2}}.JSON() is
\* {"n1":"v1","n2":2}.
C18_JSONLiterals ==
    vm.pc = "jsonany" =>
        /\ \A k \in 1..Len(vm.kvs) :
              ~vm.kvs[k].V.str =>
                  /\ Contains(vm.out, Quoted(vm.kvs[k].K) \o <<":">> \o vm.kvs[k].V.text)
                  /\ ~Contains(vm.out, <<":">> \o Quoted(vm.kvs[k].V.text))
        /\ vm.kvs = <<KV(<<"n1">>, Str(<<"v1">>)), KV(<<"n2">>, Lit(<<"2">>))>> =>
              vm.out = <<"{", "\"", "n1", "\"", ":", "\"", "v1", "\"", ",",
                         "\"", "n2", "\"", ":", "2", "}">>

C18_Witness ==
    /\ vm.pc = "jsonany"
    /\ vm.kvs = <<KV(<<"n1">>, Str(<<"v1">>)), KV(<<"n2">>, Lit(<<"2">>))>>
    /\ Contains(vm.out, <<":", "2", "}">>)

\* C19: a.Extend(b) is the entries of a in order followed by those of b, of
\* length len(a) + len(b).
C19_ExtendConcat ==
    vm.pc = "extended" =>
        /\ Content(vm.heap, vm.x) = vm.vals \o vm.more
        /\ vm.x.len = Len(vm.vals) + Len(vm.more)
        /\ vm.x.len <= vm.x.cap

C19_Witness ==
    /\ vm.pc = "extended"
    /\ Len(vm.vals) = 2 /\ Len(vm.more) = 2
    /\ vm.a.cap > vm.a.len
    /\ vm.x.arr # vm.a.arr

\* C19 on the empty and the nil receiver and the empty argument.
C19_WitnessEmpty ==
    vm.pc = "extended" /\ vm.a = NoSlice /\ vm.more = <<>> /\ vm.x = NoSlice

\* C20: after x := a.Extend(b) and y := a.Extend(c), x is still a followed by
\* b, and a is unchanged.
C20_Original ==
    vm.pc = "extended2" =>
        /\ Content(vm.heap, vm.x) = vm.vals \o vm.more
        /\ Content(vm.heap, vm.a) = vm.vals

\* C20 for a receiver without spare capacity: both results stay what they
\* were made as.
C20_NoSpare ==
    (vm.pc = "extended2" /\ vm.a.cap = vm.a.len) =>
        /\ Content(vm.heap, vm.x) = vm.vals \o vm.more
        /\ Content(vm.heap, vm.y) = vm.vals \o vm.last
        /\ Content(vm.heap, vm.a) = vm.vals

\* The receiver itself is never changed by Extend.
C20_ReceiverKept ==
    vm.pc \in {"extended", "extended2"} => Content(vm.heap, vm.a) = vm.vals

(***************************************************************************)
(* utils: buildFullURL and the two retry predicates called directly, on    *)
(* arguments of the caller's choice.                                       *)
(***************************************************************************)
HttpBin == <<"http://httpbin.org">>

InitUtils ==
    /\ gen = "v3"
    /\ r = New(gen, BaseURL)
    /\ tr = NewClient(gen)
    /\ s = Idle
    /\ ret = NoRet
    /\ h = NewHistory(0, 0, r)
    /\ sh = NoShared
    /\ vm = NoVals
    /\ call = NoCall
    /\ rsp = NoRespValue

\* fullURL, err := buildFullURL(base, path, params)
CallBuildFullURL ==
    /\ call.fn = "none"
    /\ \E base \in {HttpBin, HttpBin \o <<"/">>, BadURL},
          path \in {<<>>, <<"get">>, <<"/", "get">>, <<"get", "?">>,
                    <<"get", "?", "a", "=", "b">>, <<"?", "a", "=", "b">>, BadURL},
          \* the query Vals: nil, empty, and up to MaxLen entries
          params \in {NilVals} \cup
                     {MkVals(q) : q \in SeqsUpTo({Val(<<"c">>, <<"d">>),
                                                  Val(<<"e", " ">>, <<"f", "&">>)}, MaxLen)} :
          call' = [fn |-> "buildFullURL", base |-> base, path |-> path,
                   params |-> params, out |-> BuildFullURL(base, path, params)]
    /\ UNCHANGED <<sh, gen, r, tr, s, ret, h, vm, rsp>>

\* result := shouldRetryOnStatusCode(code, pairs)
CallShouldRetryOnStatusCode ==
    /\ call.fn = "none"
    /\ \E code \in {0, 200, 399, 400, 450, 500, 503, 505, 506, 600, 601},
          pairs \in SeqsUpTo({<<400, 600>>, <<400, 500>>, <<506, 600>>, <<200, 200>>},
                             MaxLen) :
          call' = [fn |-> "shouldRetryOnStatusCode", code |-> code, pairs |-> pairs,
                   out |-> ShouldRetryOnStatusCode(code, pairs)]
    /\ UNCHANGED <<sh, gen, r, tr, s, ret, h, vm, rsp>>

\* result := shouldRetryOnTextMarker([]byte(text), markers)
CallShouldRetryOnTextMarker ==
    /\ call.fn = "none"
    \* bodies and markers letter by letter
    /\ \E text \in {<<>>, <<"e", "r", "r", "o", "r">>, <<"E", "r", "r", "o", "r">>,
                     <<"E", "R", "R", "O", "R">>, <<"e", "r", "r", "o">>,
                     <<"e", "r", "r", " ", "o", "r">>,
                     <<"n", "o", " ", "e", "r", "r", "o", "r", "s">>, <<"o", "k">>},
          markers \in SeqsUpTo({<<"e", "r", "r", "o", "r">>, <<"E", "r", "r", "o", "r">>,
                                <<"o", "k">>, <<>>}, MaxLen) :
          call' = [fn |-> "shouldRetryOnTextMarker", text |-> text, markers |-> markers,
                   out |-> ShouldRetryOnTextMarker(text, markers)]
    /\ UNCHANGED <<sh, gen, r, tr, s, ret, h, vm, rsp>>

NextUtils ==
    CallBuildFullURL \/ CallShouldRetryOnStatusCode \/ CallShouldRetryOnTextMarker

SpecUtils == InitUtils /\ [][NextUtils]_vars

\* C21: buildFullURL resolves path against base; when the query Vals is not
\* nil (empty included) the query string of the result is exactly
\* query.URLEncode(), whatever query the path carried; when it is nil the
\* query of the path is kept as it is; base "http://httpbin.org", path "get"
\* and query {{"c","d"}} give "http://httpbin.org/get?c=d".
C21_BuildFullURL ==
    (call.fn = "buildFullURL" /\ UrlParses(call.base) /\ UrlParses(call.path)) =>
        LET root == IF call.base[Len(call.base)] = "/"
                    THEN SubSeq(call.base, 1, Len(call.base) - 1) ELSE call.base
            rel  == PathOf(call.path)
        IN  /\ call.out.ok
            /\ \/ rel = <<>> /\ PathOf(call.out.url) = call.base
               \/ rel # <<>> /\ rel[1] = "/" /\ PathOf(call.out.url) = root \o rel
               \/ rel # <<>> /\ rel[1] # "/" /\ PathOf(call.out.url) = root \o <<"/">> \o rel
            /\ RawQueryOf(call.out.url) =
                  IF call.params.nil THEN RawQueryOf(call.path)
                  ELSE URLEncode(call.params.v)
            /\ (~call.params.nil /\ call.params.v = <<>>) =>
                  ~Contains(call.out.url, <<"a", "=", "b">>)
            /\ (call.base = HttpBin /\ call.path = <<"get">>
                    /\ call.params = MkVals(<<Val(<<"c">>, <<"d">>)>>)) =>
                  call.out.url = <<"http://httpbin.org", "/", "get", "?", "c", "=", "d">>

\* buildFullURL was given a path with a query of its own and an empty Vals
\* that is not nil, and the result has no query.
C21_Witness ==
    /\ call.fn = "buildFullURL"
    /\ call.base = HttpBin
    /\ call.path = <<"get", "?", "a", "=", "b">>
    /\ call.params = MkVals(<<>>)
    /\ call.out.ok
    /\ call.out.url = <<"http://httpbin.org", "/", "get">>

\* buildFullURL was given a nil Vals and kept the query of the path.
C21_WitnessNil ==
    /\ call.fn = "buildFullURL"
    /\ call.params.nil
    /\ call.out.ok
    /\ call.out.url = <<"http://httpbin.org", "/", "get", "?", "a", "=", "b">>

\* A list in the opposite order.
Reverse(list) == [k \in 1..Len(list) |-> list[Len(list) + 1 - k]]

\* C22: shouldRetryOnStatusCode(code, ranges) is true exactly when some pair
\* [from, to] of ranges has from <= code <= to, both ends included; it is
\* false for the empty list and for a code in the gap between two pairs,
\* and the order of the pairs does not change the result.
C22_StatusInSomeRange ==
    call.fn = "shouldRetryOnStatusCode" =>
        /\ call.out = (\E k \in 1..Len(call.pairs) :
                          call.pairs[k][1] <= call.code /\ call.code <= call.pairs[k][2])
        /\ call.pairs = <<>> => ~call.out
        /\ call.out = ShouldRetryOnStatusCode(call.code, Reverse(call.pairs))
        /\ (call.code = 200 /\ call.pairs = <<<<400, 600>>>>) => ~call.out
        /\ (call.code = 505 /\ call.pairs = <<<<400, 600>>>>) => call.out
        /\ (call.code = 505 /\ call.pairs = <<<<400, 500>>, <<506, 600>>>>) => ~call.out

\* The code is the upper end of the second pair and is found.
C22_Witness ==
    /\ call.fn = "shouldRetryOnStatusCode"
    /\ call.code = 600
    /\ call.pairs = <<<<400, 500>>, <<506, 600>>>>
    /\ call.out

\* The code lies in the gap between the two pairs and is not found.
C22_WitnessGap ==
    /\ call.fn = "shouldRetryOnStatusCode"
    /\ call.code = 503
    /\ call.pairs = <<<<506, 600>>, <<400, 500>>>>
    /\ ~call.out

\* The text has the marker at the given offset, letter for letter.
OccursAt(text, marker, k) == SubSeq(text, k + 1, k + Len(marker)) = marker

\* C23: shouldRetryOnTextMarker(body, markers) is true exactly when at least
\* one marker occurs in the body as a substring, letter case included; with
\* the markers "error" and "Error" it is false for the empty body and true
\* for the bodies "error" and "Error".
C23_SomeMarkerOccurs ==
    call.fn = "shouldRetryOnTextMarker" =>
        /\ call.out = (\E m \in 1..Len(call.markers) :
                          \E k \in 0..(Len(call.text) - Len(call.markers[m])) :
                              OccursAt(call.text, call.markers[m], k))
        /\ call.markers = <<<<"e", "r", "r", "o", "r">>, <<"E", "r", "r", "o", "r">>>> =>
              /\ call.text = <<>> => ~call.out
              /\ call.text = <<"e", "r", "r", "o", "r">> => call.out
              /\ call.text = <<"E", "r", "r", "o", "r">> => call.out
              /\ call.text = <<"E", "R", "R", "O", "R">> => ~call.out

\* The body has the second marker only, inside a longer text.
C23_Witness ==
    /\ call.fn = "shouldRetryOnTextMarker"
    /\ call.text = <<"n", "o", " ", "e", "r", "r", "o", "r", "s">>
    /\ call.markers = <<<<"E", "r", "r", "o", "r">>, <<"e", "r", "r", "o", "r">>>>
    /\ call.out

\* The body has the marker in another letter case and is not matched.
C23_WitnessCase ==
    /\ call.fn = "shouldRetryOnTextMarker"
    /\ call.text = <<"E", "R", "R", "O", "R">>
    /\ call.markers = <<<<"e", "r", "r", "o", "r">>, <<"E", "r", "r", "o", "r">>>>
    /\ ~call.out

(***************************************************************************)
(* Resp: Text and JSON called on a Resp the caller holds.                  *)
(***************************************************************************)
\* Response bodies as JSON tokens: an object that fits the target, one whose
\* "data" is a number, one without "data", a bare string, and two texts
\* that are not JSON.
JSONFits == <<"{", "\"", "data", "\"", ":", "\"", "x", "\"", "}">>
JSONWrongType == <<"{", "\"", "data", "\"", ":", "5", "}">>
JSONOtherKey == <<"{", "\"", "form", "\"", ":", "\"", "x", "\"", ",",
                  "\"", "n", "\"", ":", "5", "}">>
JSONScalar == <<"\"", "x", "\"">>
NotJSON == <<"<html>">>
JSONCut == <<"{", "\"", "data", "\"", ":">>

\* A Resp as Send makes it (text is the zero value), before any call.
NewResp(content, respRaw) ==
    [pc |-> "resp", Content |-> content, RespRaw |-> respRaw, text |-> <<>>,
     calls |-> 0,                      \* calls of Text and JSON so far
     texts |-> 0,                      \* calls of Text so far
     conversions |-> 0,                \* executions of string(resp.Content)
     first |-> <<>>,                   \* string(Content) when Text was first called
     got |-> <<>>,                     \* what the last Text returned
     same |-> TRUE,                    \* every Text returned what the first did
     assigned |-> FALSE,               \* the caller assigned Content
     last |-> "none",                  \* the last call: "Text", "JSON" or none
     target |-> "none", err |-> NoErr, \* the last JSON call
     pre |-> [Content |-> content, RespRaw |-> respRaw, text |-> <<>>]]

InitResp ==
    /\ gen = "v3"
    /\ r = New(gen, BaseURL)
    /\ tr = NewClient(gen)
    /\ s = Idle
    /\ ret = NoRet
    /\ h = NewHistory(0, 0, r)
    /\ sh = NoShared
    /\ vm = NoVals
    /\ call = NoCall
    /\ rsp \in {NewResp(c, rr) :
                   c \in {NilBytes} \cup
                         {Bytes(b) : b \in {<<>>, JSONFits, JSONWrongType, JSONOtherKey,
                                            JSONScalar, NotJSON, JSONCut}},
                   rr \in {NoResp, [nil |-> FALSE, StatusCode |-> 200, att |-> 1]}}

\* string(b) of a []byte: the empty string for nil and for empty.
StringOf(bytes) == IF bytes.nil THEN <<>> ELSE bytes.b

\* Resp.Text: the text field after the call (it is the value returned) and
\* whether the call converted Content.
Text(resp) ==
    IF resp.text = <<>> /\ ~resp.Content.nil
    THEN [text |-> StringOf(resp.Content), converted |-> TRUE]
    ELSE [text |-> resp.text, converted |-> FALSE]

\* resp.Text()
CallText ==
    /\ rsp.pc = "resp"
    /\ rsp.calls < MaxCalls
    /\ LET t == Text(rsp) IN
       rsp' = [rsp EXCEPT !.text = t.text, !.got = t.text,
                          !.calls = @ + 1, !.texts = @ + 1, !.last = "Text",
                          !.conversions = @ + (IF t.converted THEN 1 ELSE 0),
                          !.first = IF rsp.texts = 0 THEN StringOf(rsp.Content) ELSE @,
                          !.same = @ /\ (rsp.texts = 0 \/ t.text = rsp.got)]
    /\ UNCHANGED <<sh, gen, r, tr, s, ret, h, vm, call>>

\* resp.Content = ... : the field is public, the caller assigns it.
AssignContent ==
    /\ rsp.pc = "resp"
    /\ ~rsp.assigned
    /\ \E c \in {NilBytes, Bytes(<<>>), Bytes(JSONFits)} \ {rsp.Content} :
          rsp' = [rsp EXCEPT !.Content = c, !.assigned = TRUE, !.last = "none"]
    /\ UNCHANGED <<sh, gen, r, tr, s, ret, h, vm, call>>

\* A JSON string token at position i of the tokens: quote, word, quote.
IsJSONString(c, i) == i + 2 <= Len(c) /\ c[i] = "\"" /\ c[i + 2] = "\""

\* The members of an object from position i to its closing brace.
RECURSIVE ValidMembers(_, _)
ValidMembers(c, i) ==
    /\ IsJSONString(c, i)
    /\ i + 3 <= Len(c) /\ c[i + 3] = ":"
    /\ LET j == IF IsJSONString(c, i + 4) THEN i + 7
                ELSE IF i + 4 <= Len(c) /\ c[i + 4] \in {"2", "5"} THEN i + 5 ELSE 0
       IN  /\ j > 0 /\ j <= Len(c)
           /\ \/ c[j] = "}" /\ j = Len(c)
              \/ c[j] = "," /\ ValidMembers(c, j + 1)

\* json.Valid: a string, a number or an object of such members.
ValidJSON(c) ==
    \/ (Len(c) = 3 /\ IsJSONString(c, 1))
    \/ (Len(c) = 1 /\ c[1] \in {"2", "5"})
    \/ c = <<"{", "}">>
    \/ (Len(c) > 2 /\ c[1] = "{" /\ ValidMembers(c, 2))

\* Valid JSON decodes into struct{Data string `json:"data"`}: it is an
\* object, and its member "data", if it has one, is a string.
FitsTarget(c) ==
    /\ c[1] = "{"
    /\ \A i \in 1..Len(c) :
          (IsJSONString(c, i) /\ c[i + 1] = "data" /\ i + 3 <= Len(c) /\ c[i + 3] = ":"
              /\ c[i - 1] \in {"{", ","})
          => IsJSONString(c, i + 4)

\* A json.Unmarshal that does not look at the kind of its target.
UnmarshalAnyTarget(bytes, target) ==
    IF ~ValidJSON(StringOf(bytes)) THEN Err(<<"unexpected end of JSON input">>)
    ELSE IF ~FitsTarget(StringOf(bytes)) THEN Err(<<"json: cannot unmarshal">>)
    ELSE NoErr

\* json.Unmarshal(data, v): the syntax of data is checked first, then that v
\* is a pointer and not nil, then the values are decoded into *v.
Unmarshal(bytes, target) ==
    IF ~ValidJSON(StringOf(bytes)) THEN Err(<<"unexpected end of JSON input">>)
    ELSE IF target # "pointer" THEN Err(<<"json: Unmarshal(non-pointer)">>)
    ELSE IF ~FitsTarget(StringOf(bytes)) THEN Err(<<"json: cannot unmarshal">>)
    ELSE NoErr

\* Resp.JSON: the error it returns.
RespJSON(resp, target) ==
    LET err == Unmarshal(resp.Content, target) IN
    IF ~err.nil THEN Wrap(err, <<"errow: ">>) ELSE NoErr

\* err := resp.JSON(target)
CallRespJSON ==
    /\ rsp.pc = "resp"
    /\ rsp.calls < MaxCalls
    \* the argument: a pointer to the struct, the struct itself, a nil pointer
    /\ \E target \in {"pointer", "value", "nilpointer"} :
          rsp' = [rsp EXCEPT !.calls = @ + 1, !.target = target, !.last = "JSON",
                             !.err = RespJSON(rsp, target),
                             !.pre = [Content |-> rsp.Content, RespRaw |-> rsp.RespRaw,
                                      text |-> rsp.text]]
    /\ UNCHANGED <<sh, gen, r, tr, s, ret, h, vm, call>>

NextResp == CallText \/ AssignContent \/ CallRespJSON

SpecResp == InitResp /\ [][NextResp]_vars

\* C24: any number of calls of Text return the same string, the text of
\* Content when Text was first called; Content is converted at most once;
\* the string is empty when Content is nil or empty.
C24_Original ==
    (rsp.pc = "resp" /\ rsp.texts > 0) =>
        /\ rsp.same
        /\ rsp.got = rsp.first
        /\ rsp.conversions <= 1

\* Text is cached once it has returned a text that is not empty.
C24_CachedWhenNotEmpty ==
    (rsp.pc = "resp" /\ rsp.texts > 0 /\ rsp.first # <<>>) =>
        /\ rsp.same
        /\ rsp.got = rsp.first
        /\ rsp.conversions = 1

\* C25: JSON returns an error that is not nil when Content is not valid JSON
\* for the target or the target is not passed by pointer; the call
\* dispatches nothing and leaves Content, RespRaw and the cached text as
\* they were.
C25_JSONError ==
    (rsp.pc = "resp" /\ rsp.target # "none") =>
        /\ (rsp.target # "pointer" \/ rsp.pre.Content.nil
                \/ rsp.pre.Content.b \in {<<>>, JSONWrongType, JSONScalar, NotJSON, JSONCut})
              => ~rsp.err.nil
        /\ (rsp.target = "pointer" /\ ~rsp.pre.Content.nil
                /\ rsp.pre.Content.b \in {JSONFits, JSONOtherKey})
              => rsp.err.nil
        /\ h.dispatches = 0 /\ h.attempts = 0 /\ s.pc = "idle"
        /\ rsp.last = "JSON" =>
              (rsp.Content = rsp.pre.Content /\ rsp.RespRaw = rsp.pre.RespRaw
                  /\ rsp.text = rsp.pre.text)

\* JSON was given the struct by value on a Content that fits the struct, and
\* returned an error; the text cached before is still there.
C25_Witness ==
    /\ rsp.pc = "resp"
    /\ rsp.last = "JSON"
    /\ rsp.target = "value"
    /\ rsp.pre.Content = Bytes(JSONFits)
    /\ rsp.text = JSONFits
    /\ ~rsp.err.nil
    /\ rsp.Content = rsp.pre.Content

(***************************************************************************)
(* Properties of the attempts of Send: causes, delays, requests, bodies.   *)
(***************************************************************************)
\* The status code lies in one of the ranges; the body has one of the markers.
InSomeRange(code, ranges) ==
    \E k \in DOMAIN ranges : ranges[k][1] <= code /\ code <= ranges[k][2]
HasSomeMarker(body, markers) ==
    \E m \in DOMAIN markers :
        \E k \in 0..(Len(body) - Len(markers[m])) : OccursAt(body, markers[m], k)

StatusWords == "finally got unwanted status code '"
MarkerWords == "finally got unwanted text marker in resp with status code '"

\* C26: the causes of a retry are looked at in the order transport error,
\* read error, status range, text marker, and the first that applies is the
\* one recorded: an attempt whose status lies in a range and whose body has
\* a marker records the status reason; the status and marker reasons hold
\* the status code and the body of the attempt.
C26_FirstCauseRecorded ==
    s.pc = "delay" =>
        LET o == h.out
            inRange == InSomeRange(o.StatusCode, r.RetryOnStatusCodes)
            hasMarker == HasSomeMarker(o.body, r.RetryOnTextMarkers)
        IN  /\ o.kind = "transport" => s.reason = TransportErrText(h.sent.req)
            /\ o.kind = "redirect" => s.reason = RedirectErrText(h.sent.req)
            /\ o.kind = "read" => s.reason = ReadErrText
            /\ (o.kind = "ok" /\ inRange) =>
                  /\ s.reason[1] = StatusWords
                  /\ s.reason = <<StatusWords, ToString(o.StatusCode), "' and content '">>
                                    \o o.body \o <<"'">>
            /\ (o.kind = "ok" /\ ~inRange) =>
                  /\ hasMarker
                  /\ s.reason[1] = MarkerWords
                  /\ s.reason = <<MarkerWords, ToString(o.StatusCode), "' and content '">>
                                    \o o.body \o <<"'">>

\* An attempt got status 505, in the range, with a body that has the marker
\* "error", and recorded the status reason.
C26_Witness ==
    /\ s.pc = "delay"
    /\ h.out.kind = "ok"
    /\ h.out.StatusCode = 505
    /\ h.out.body = <<"an ", "error">>
    /\ r.RetryOnStatusCodes = DefaultCodes
    /\ r.RetryOnTextMarkers = DefaultMarkers
    /\ s.reason[1] = StatusWords

\* An attempt whose body failed to read got a status in the range and
\* recorded the read error.
C26_WitnessRead ==
    /\ s.pc = "delay"
    /\ h.out.kind = "read"
    /\ h.out.StatusCode = 505
    /\ r.RetryOnStatusCodes = DefaultCodes
    /\ s.reason = ReadErrText

\* C27: a delay happens only between two attempts: none after the last
\* attempt, so a Send of k attempts waits at most k - 1 times; a delay of
\* zero milliseconds does not wait.
C27_Original ==
    (ret.set /\ h.attempts > 0) =>
        /\ h.waits <= h.attempts - 1
        /\ h.atCall.RetryDelayMillis = 0 => h.waits = 0

\* What the loop does: one call of delay after every attempt marked for
\* retry, the last one included, none after a success; it waits when the
\* delay is positive.
C27_DelayPerRetry ==
    ret.set =>
        /\ h.delays = h.retried
        /\ h.successAt > 0 => h.delays = h.attempts - 1
        /\ h.waits = IF h.atCall.RetryDelayMillis > 0 THEN h.delays ELSE 0

\* C28: with no middleware registered a Send builds its request once, on its
\* first attempt, and every later attempt dispatches that request as it was
\* built, its body included.
C28_Original ==
    (Registered = 0 /\ h.dispatches > 0) =>
        /\ h.builds = 1
        /\ h.builtAt = 1
        /\ ~h.sent.req.BodyRead

\* The first Send of a Req without a body builds once and dispatches what it
\* built on every attempt.
C28_FirstSendNoBody ==
    (Registered = 0 /\ h.sends = 1 /\ h.dispatches > 0 /\ h.sent.req.Body = <<>>) =>
        /\ h.builds = 1
        /\ h.builtAt = 1
        /\ h.sent.req = Materialized(gen, h.atCall).req

\* C29: the body of every response is closed when the attempt is classified,
\* when the next attempt starts and when Send returns, whether the body was
\* read, failed to read, or came with an error of the transport; no two
\* bodies are open at once.
C29_BodiesClosed ==
    /\ h.open = 0
    /\ (s.pc = "classify" /\ ~s.respRaw.nil) => h.dispatches > 0

\* The body of the second response failed to read and is closed.
C29_Witness ==
    /\ s.pc = "classify"
    /\ h.out.kind = "read"
    /\ h.dispatches = 2
    /\ ~s.respRaw.nil
    /\ h.open = 0

\* The newest Send got a response together with an error, and no body is open.
C29_WitnessBoth ==
    /\ gen = "v3"
    /\ s.pc = "classify"
    /\ h.out.kind = "redirect"
    /\ ~s.respRaw.nil /\ ~s.err.nil
    /\ h.open = 0

\* The reason the last attempt of the Send recorded.
LastReason ==
    CASE h.out.kind = "transport" -> TransportErrText(h.sent.req)
      [] h.out.kind = "redirect" -> RedirectErrText(h.sent.req)
      [] h.out.kind = "read" -> ReadErrText
      [] h.out.kind = "ok" ->
            IF InSomeRange(h.out.StatusCode, h.fields.RetryOnStatusCodes)
            THEN <<StatusWords, ToString(h.out.StatusCode), "' and content '">>
                     \o h.out.body \o <<"'">>
            ELSE <<MarkerWords, ToString(h.out.StatusCode), "' and content '">>
                     \o h.out.body \o <<"'">>
      [] OTHER -> <<>>

\* C30: when a Send fails because its attempts are used up, the reason in
\* the message of its error is the one its last attempt recorded.
C30_LastReasonReported ==
    (Exhausted /\ h.attempts > 0) =>
        LET msg == ret.err.msg
            n == Len(LastReason)
        IN  /\ ~ret.err.nil
            /\ msg[1] = "FAILED: "
            /\ Len(msg) > n
            /\ SubSeq(msg, Len(msg) - n + 1, Len(msg)) = LastReason
            /\ \/ Len(msg) = n + 1
               \/ /\ msg[2] = h.fields.Method
                  /\ msg[Len(msg) - n] = ": "
                  /\ ~Contains(SubSeq(msg, 2, Len(msg) - n), <<StatusWords>>)
                  /\ ~Contains(SubSeq(msg, 2, Len(msg) - n), <<MarkerWords>>)
                  /\ ~Contains(SubSeq(msg, 2, Len(msg) - n), ReadErrText)

\* A Send used up two attempts or more, the last one on a status in the
\* range, an earlier one on another reason.
C30_Witness ==
    /\ Exhausted
    /\ h.attempts >= 2
    /\ h.varied
    /\ h.out.kind = "ok"
    /\ LastReason[1] = StatusWords
    /\ Contains(ret.err.msg, LastReason)

(***************************************************************************)
(* Termination of Send.  The loop of Send is one goroutine that runs on    *)
(* once Send is called: each step of the loop is taken when it is enabled. *)
(***************************************************************************)
\* A Req as the caller configured it before the Send: the attempt limit,
\* the middleware and the proxy chosen, the other fields as New leaves them.
InitLive ==
    /\ gen \in Gens
    /\ \E attempts \in 0..MaxAttempts, funcs \in MwLists, proxy \in {<<>>, Proxy1} :
          r = [New(gen, BaseURL) EXCEPT !.Attempts = attempts, !.Middleware = funcs,
                                        !.ProxyURL = proxy]
    /\ tr \in {NewClient(gen)}
               \cup {[built |-> TRUE, kind |-> "custom", Proxy |-> <<>>, Timeout |-> 0] :
                        g \in {gen} \cap {"v3"}}
    /\ s = Idle
    /\ ret = NoRet
    /\ h = NewHistory(0, 0, r)
    /\ sh = NoShared
    /\ vm = NoVals
    /\ call = NoCall
    /\ rsp = NoRespValue

NextLive ==
    \/ Send
    \/ LoopCheck \/ CallMiddleware \/ Build \/ Do \/ Classify \/ Delay \/ Finish

SpecLive ==
    /\ InitLive
    /\ [][NextLive]_vars
    /\ WF_vars(LoopCheck \/ CallMiddleware \/ Build \/ Do \/ Classify \/ Delay \/ Finish)

\* C33: every Send terminates, after at most N attempts where N is the
\* attempt limit when Send was called, whatever the middleware assigns.
C33_Original ==
    /\ [](h.attempts <= LimitAtCall)
    /\ (s.pc # "idle") ~> (s.pc \in {"idle", "panic"})

\* C33 amended: every Send terminates (the attempt limit being bounded), and
\* one during which no callback changes the attempt limit enters the loop at
\* most N times.
C33_Terminates ==
    /\ [](~h.limitChanged => h.attempts <= LimitAtCall)
    /\ (s.pc # "idle") ~> (s.pc \in {"idle", "panic"})

C33_Witness ==
    /\ ret.set /\ s.pc = "idle"
    /\ h.mwCalls > 0 /\ h.fields # h.atCall
    /\ ~h.limitChanged /\ LimitAtCall >= 2 /\ h.attempts = LimitAtCall

C33_WitnessRaised ==
    ret.set /\ s.pc = "idle" /\ h.limitChanged /\ h.attempts > LimitAtCall

(***************************************************************************)
(* An attempt limit of zero.                                               *)
(***************************************************************************)
\* C34: a Send with an attempt limit of zero or less calls no middleware,
\* builds and dispatches nothing and returns an error and an envelope without
\* Content and RespRaw; the error message names the method and the URL.
C34_Original ==
    (ret.set /\ LimitAtCall <= 0) =>
        /\ h.mwCalls = 0 /\ h.builds = 0 /\ h.dispatches = 0
        /\ ~ret.err.nil
        /\ ~ret.resp.nil /\ ret.resp.Content.nil /\ ret.resp.RespRaw.nil
        /\ Contains(ret.err.msg, <<h.atCall.Method>>)
        /\ Contains(ret.err.msg, h.atCall.URL)

\* C34 without the message: nothing is done and the envelope is empty.
C34_NothingDone ==
    (ret.set /\ LimitAtCall <= 0) =>
        /\ h.attempts = 0 /\ h.mwCalls = 0 /\ h.builds = 0 /\ h.dispatches = 0
        /\ ~ret.err.nil
        /\ ~ret.resp.nil /\ ret.resp.Content.nil /\ ret.resp.RespRaw.nil
        /\ ret.err.msg = <<"FAILED: ">>

C34_Witness == ret.set /\ LimitAtCall <= 0 /\ Registered > 0

(***************************************************************************)
(* The proxy of a rebuilt attempt.                                         *)
(***************************************************************************)
\* C35: the dispatch of an attempt whose request was built in that attempt
\* goes through the proxy ProxyURL names at that build, and through none
\* when ProxyURL is empty.
C35_Original ==
    (/\ s.pc = "classify"
     /\ h.builtAt = s.attempt
     /\ h.fields.ProxyURL = <<>> \/ UrlParses(h.fields.ProxyURL)) =>
        h.sent.Proxy = h.fields.ProxyURL

\* C35 for a transport made anew by every build (src/req.go).
C35_FreshTransport ==
    (/\ gen = "v1"
     /\ s.pc = "classify"
     /\ h.builtAt = s.attempt
     /\ h.fields.ProxyURL = <<>> \/ UrlParses(h.fields.ProxyURL)) =>
        h.sent.Proxy = h.fields.ProxyURL

C35_WitnessFresh ==
    /\ gen = "v1" /\ s.pc = "classify" /\ h.builtAt = s.attempt /\ s.attempt = 2
    /\ Registered > 0 /\ h.atCall.ProxyURL = <<>>
    /\ h.fields.ProxyURL = <<>> /\ h.sent.Proxy = <<>>

(***************************************************************************)
(* Retry rules that are empty, and the empty marker.                       *)
(***************************************************************************)
\* C37: with no retry status ranges and no text markers only an attempt
\* whose dispatch or body read failed is retried, and an attempt that read a
\* response succeeds; with an empty marker in the list every attempt that
\* read a response is retried.
C37_EmptyRules ==
    /\ (r.RetryOnStatusCodes = <<>> /\ r.RetryOnTextMarkers = <<>>) =>
          /\ s.pc = "delay" => h.out.kind \in {"transport", "redirect", "read"}
          /\ (s.pc = "finish" /\ h.out.kind = "ok") => s.success /\ h.successAt = h.attempts
    /\ (/\ \E i \in 1..Len(r.RetryOnTextMarkers) : r.RetryOnTextMarkers[i] = <<>>
        /\ s.pc \in {"delay", "finish"}
        /\ h.out.kind = "ok") =>
          ~s.success /\ h.retried = h.attempts

C37_Witness ==
    /\ r.RetryOnStatusCodes = <<>> /\ r.RetryOnTextMarkers = <<>>
    /\ s.pc = "finish" /\ s.success /\ h.attempts = 2
    /\ h.out.kind = "ok" /\ h.out.StatusCode = 505 /\ h.out.body = <<"an ", "error">>

C37_WitnessEmptyMarker ==
    /\ r.RetryOnTextMarkers = <<<<>>>>
    /\ s.pc = "delay" /\ h.out.kind = "ok" /\ h.out.StatusCode = 200 /\ h.out.body = <<>>

(***************************************************************************)
(* The reading methods of Vals.                                            *)
(***************************************************************************)
\* C32: URLEncode, JSON and String leave the Vals they are called on as it
\* was, entries and order, after any sequence of calls, and a repeated call
\* returns the string it returned before: each call returns what the method
\* makes of the entries the Vals was made with.
C32_ReadOnly ==
    vm.calls > 0 =>
        /\ Content(vm.heap, vm.a) = vm.vals
        /\ vm.a.len = Len(vm.vals)
        /\ vm.same
        /\ vm.out = CASE vm.key[1] = "URLEncode" -> URLEncode(vm.vals)
                      [] vm.key[1] = "JSON" -> JSON(vm.vals)
                      [] OTHER -> ValString(vm.vals[vm.key[2]])

C32_Witness ==
    /\ vm.calls = MaxCalls /\ vm.repeated /\ vm.pc = "urlencoded"
    /\ Len(vm.vals) = 2 /\ vm.vals[1] # vm.vals[2]
    /\ vm.out # URLEncode(<<vm.vals[2], vm.vals[1]>>)

C32_WitnessString ==
    vm.calls = MaxCalls /\ vm.repeated /\ vm.key = <<"String", 2>>

(***************************************************************************)
(* Vals.JSON read back.  A JSON text is decoded as encoding/json's Decoder *)
(* reads its tokens: an object of string members, in the order written.    *)
(***************************************************************************)
\* A JSON string from its opening quote to the closing one, escapes undone.
RECURSIVE ScanString(_, _, _)
ScanString(text, j, acc) ==
    IF j > Len(text) THEN [ok |-> FALSE, str |-> acc, next |-> j]
    ELSE IF text[j] = "\"" THEN [ok |-> TRUE, str |-> acc, next |-> j + 1]
    ELSE IF text[j] = "\\"
         THEN IF j + 1 > Len(text) THEN [ok |-> FALSE, str |-> acc, next |-> j]
              ELSE IF text[j + 1] \in {"\"", "\\", "/"}
                   THEN ScanString(text, j + 2, Append(acc, text[j + 1]))
              ELSE IF text[j + 1] = "n"
                   THEN ScanString(text, j + 2, Append(acc, "\n"))
              ELSE [ok |-> FALSE, str |-> acc, next |-> j]
    ELSE ScanString(text, j + 1, Append(acc, text[j]))

\* The members of an object from position i on: "key":"value" , ... }
RECURSIVE DecodeMembers(_, _, _)
DecodeMembers(text, i, pairs) ==
    LET bad == [ok |-> FALSE, pairs |-> pairs] IN
    IF i > Len(text) \/ text[i] # "\"" THEN bad
    ELSE LET k == ScanString(text, i + 1, <<>>) IN
         IF ~k.ok \/ k.next + 1 > Len(text) THEN bad
         ELSE IF text[k.next] # ":" \/ text[k.next + 1] # "\"" THEN bad
         ELSE LET v == ScanString(text, k.next + 2, <<>>)
                  got == Append(pairs, Val(k.str, v.str))
              IN  IF ~v.ok \/ v.next > Len(text) THEN bad
                  ELSE IF text[v.next] = "}"
                       THEN [ok |-> v.next = Len(text), pairs |-> got]
                  ELSE IF text[v.next] = ","
                       THEN DecodeMembers(text, v.next + 1, got)
                  ELSE bad

JSONDecode(text) ==
    IF Len(text) < 2 \/ text[1] # "{" THEN [ok |-> FALSE, pairs |-> <<>>]
    ELSE IF text[2] = "}" THEN [ok |-> Len(text) = 2, pairs |-> <<>>]
    ELSE DecodeMembers(text, 2, <<>>)

\* A text with a letter JSON writes escaped inside a string.
NeedsEscape(text) == \E k \in 1..Len(text) : text[k] \in {"\"", "\\"}

PlainStrings(vals) == \A k \in 1..Len(vals) : ~HasSeqSig(vals[k].Value)

C36_WitnessQuote ==
    /\ vm.pc = "json" /\ vm.vals = <<Val(<<"n1">>, <<"q", "\"", "z">>)>>
    /\ ~JSONDecode(vm.out).ok

C36_WitnessBackslash ==
    /\ vm.pc = "json" /\ vm.vals = <<Val(<<"n1">>, <<"b", "\\", "n">>)>>
    /\ JSONDecode(vm.out).ok
    /\ JSONDecode(vm.out).pairs = <<Val(<<"n1">>, <<"b", "\n">>)>>

(***************************************************************************)
(* Two Reqs made by New and sent side by side.  In part_002 New gives      *)
(* every Req the one http.DefaultClient, and WithClient may give two Reqs  *)
(* the same client; in part_003 and req.go every Req has a transport and   *)
(* client of its own.  The steps of the two Sends interleave: a build      *)
(* (at the first attempt, no middleware registered) and the dispatches.    *)
(* The writes of an overlapping build and dispatch to one client are not   *)
(* synchronised; a dispatch runs under the values of the last write.       *)
(***************************************************************************)
InitShared ==
    /\ gen \in Gens
    /\ r = New(gen, BaseURL)
    /\ tr = NewClient(gen)
    /\ s = Idle
    /\ ret = NoRet
    /\ h = NewHistory(0, 0, r)
    /\ vm = NoVals
    /\ call = NoCall
    /\ rsp = NoRespValue
    /\ sh \in {[pc |-> "run",
                reqs |-> [i \in 1..2 |->
                            [Timeout |-> IF i = 1 THEN t1 ELSE t2,
                             ProxyURL |-> IF i = 1 THEN p1 ELSE p2,
                             ptr |-> IF own THEN i ELSE 1,
                             at |-> "new", dispatches |-> 0,
                             under |-> [set |-> FALSE, Timeout |-> 0, Proxy |-> <<>>]]],
                clients |-> [i \in 1..2 |->
                               IF kind = "custom"
                               THEN [built |-> TRUE, kind |-> "custom", Proxy |-> <<>>,
                                     Timeout |-> 0]
                               ELSE NewClient(gen)]] :
                  t1 \in Timeouts, t2 \in Timeouts,
                  p1 \in {<<>>, Proxy1, <<"http://p2">>},
                  p2 \in {<<>>, Proxy1, <<"http://p2">>},
                  kind \in IF gen = "v3" THEN {"default", "custom"} ELSE {"own"},
                  own \in IF gen = "v3" THEN BOOLEAN ELSE {TRUE}}
    \* http.DefaultClient is one object
    /\ (gen = "v3" /\ sh.clients[1].kind = "default") => sh.reqs[2].ptr = 1

\* The build of Req i's first attempt: it configures the client Req i holds.
SharedBuild ==
    /\ sh.pc = "run"
    /\ \E i \in 1..2 :
          LET q == sh.reqs[i]
              cc == ConfigureClient(gen, [New(gen, BaseURL) EXCEPT !.Timeout = q.Timeout,
                                                                    !.ProxyURL = q.ProxyURL],
                                    sh.clients[q.ptr])
          IN  /\ q.at = "new"
              /\ sh' = [sh EXCEPT !.clients[q.ptr] = cc.client,
                                  !.reqs[i].at = IF cc.kind = "ok" THEN "built" ELSE cc.kind]
    /\ UNCHANGED <<gen, r, tr, s, ret, h, vm, call, rsp>>

\* r.Client.Do(r.reqRaw) of Req i, at any attempt and any later Send: the
\* request built once goes out under the client's timeout and proxy of now.
SharedDo ==
    /\ sh.pc = "run"
    /\ \E i \in 1..2 :
          LET q == sh.reqs[i] IN
          /\ q.at = "built"
          /\ q.dispatches < MaxAttempts
          /\ sh' = [sh EXCEPT !.reqs[i].dispatches = @ + 1,
                              !.reqs[i].under = [set |-> TRUE,
                                                 Timeout |-> sh.clients[q.ptr].Timeout,
                                                 Proxy |-> sh.clients[q.ptr].Proxy]]
    /\ UNCHANGED <<gen, r, tr, s, ret, h, vm, call, rsp>>

NextShared == SharedBuild \/ SharedDo

SpecShared == InitShared /\ [][NextShared]_vars

\* C31: every dispatch of each of two Reqs runs under that Req's own timeout
\* and proxy, in every interleaving of their Sends.
C31_Original ==
    sh.pc = "run" =>
        \A i \in 1..2 :
            sh.reqs[i].under.set =>
                /\ sh.reqs[i].under.Timeout = sh.reqs[i].Timeout
                /\ sh.reqs[i].under.Proxy = sh.reqs[i].ProxyURL

\* C31 for two Reqs that hold a client each.
C31_OwnClients ==
    (sh.pc = "run" /\ sh.reqs[1].ptr # sh.reqs[2].ptr) =>
        \A i \in 1..2 :
            sh.reqs[i].under.set =>
                /\ sh.reqs[i].under.Timeout = sh.reqs[i].Timeout
                /\ sh.reqs[i].under.Proxy = sh.reqs[i].ProxyURL

C31_WitnessOwn ==
    /\ sh.pc = "run" /\ sh.reqs[1].ptr # sh.reqs[2].ptr
    /\ sh.reqs[1].under.set /\ sh.reqs[2].under.set
    /\ sh.reqs[1].Timeout # sh.reqs[2].Timeout
    /\ sh.reqs[1].ProxyURL = Proxy1 /\ sh.reqs[2].ProxyURL = <<>>
    /\ sh.reqs[1].dispatches = 2

C31_WitnessShared ==
    /\ sh.pc = "run" /\ gen = "v3" /\ sh.clients[1].kind = "default"
    /\ sh.reqs[1].under.set /\ sh.reqs[2].at = "built"
    /\ sh.reqs[1].under.Timeout = sh.reqs[2].Timeout
    /\ sh.reqs[1].Timeout # sh.reqs[2].Timeout
=============================================================================
